---- MODULE Spec2Model ----
(***************************************************************************)
(* Model of dlg_paletteGen/classes.py: the type normaliser (typeFix), the  *)
(* docstring dialect classifier and parsers (DetailedDescription) and the  *)
(* signature/documentation merger (GreatGrandChild, Child).                *)
(*                                                                         *)
(* Python strings are TLA+ strings; positions are 1-based, so Python's     *)
(* s[a:b] is Slice(s, a+1, b) and str.find's -1 is 0 here.                *)
(***************************************************************************)
EXTENDS Integers, Sequences, FiniteSets, TLC

(***************************************************************************)
(* Python string primitives                                                *)
(***************************************************************************)

\* Python's None, kept apart from every text the inputs can hold.
PyNone == "\t<None>"

SetMin(S) == CHOOSE m \in S : \A n \in S : m <= n

SetMax(S) == CHOOSE m \in S : \A n \in S : m >= n

\* The first of a set of positions, 0 (Python's -1) when there is none.
FirstOrZero(S) == IF S = {} THEN 0 ELSE SetMin(S)

\* The last of a set of positions, 0 when there is none.
LastOrZero(S) == IF S = {} THEN 0 ELSE SetMax(S)

\* Python's clamping slice s[a-1:b]; empty when the range is empty.
Slice(s, a, b) ==
    LET lo == IF a < 1 THEN 1 ELSE a
        hi == IF b > Len(s) THEN Len(s) ELSE b
    IN  IF lo > hi THEN "" ELSE SubSeq(s, lo, hi)

CharAt(s, i) == Slice(s, i, i)

\* s[i:] of Python with i 0-based, i.e. the text from position i+1 on.
From(s, p) == Slice(s, p, Len(s))

\* str.find(sub) from position p: first position of sub, 0 when absent.
FindFrom(s, sub, p) ==
    FirstOrZero({i \in p..(Len(s) - Len(sub) + 1) : Slice(s, i, i + Len(sub) - 1) = sub})

Find(s, sub) == FindFrom(s, sub, 1)

\* str.rfind(sub): last position of sub, 0 when absent.
RFind(s, sub) ==
    LastOrZero({i \in 1..(Len(s) - Len(sub) + 1) : Slice(s, i, i + Len(sub) - 1) = sub})

StartsWith(s, pre) == Len(s) >= Len(pre) /\ Slice(s, 1, Len(pre)) = pre

RECURSIVE Split(_, _)
\* str.split(sep), i being the first position of sep in s.
SplitAt(s, sep, i) ==
    IF i = 0 THEN <<s>>
    ELSE <<Slice(s, 1, i - 1)>> \o Split(From(s, i + Len(sep)), sep)

\* str.split(sep)
Split(s, sep) == SplitAt(s, sep, Find(s, sep))

\* The two parts of s around the separator at position i, s alone when
\* i is 0.
CutAt(s, sep, i) ==
    IF i = 0 THEN <<s>>
    ELSE <<Slice(s, 1, i - 1), From(s, i + Len(sep))>>

\* str.rsplit(sep, 1)
RSplit1(s, sep) == CutAt(s, sep, RFind(s, sep))

\* str.split(sep, 1)
Split1(s, sep) == CutAt(s, sep, Find(s, sep))

RECURSIVE Join(_, _)
\* sep.join(parts)
Join(parts, sep) ==
    IF Len(parts) = 0 THEN ""
    ELSE IF Len(parts) = 1 THEN parts[1]
    ELSE parts[1] \o sep \o Join(Tail(parts), sep)

\* str.replace(old, new)
Replace(s, old, new) == Join(Split(s, old), new)

WhiteSpace == {" ", "\n", "\t", "\r"}

RECURSIVE LStrip(_)
LStrip(s) ==
    IF Len(s) > 0 /\ CharAt(s, 1) \in WhiteSpace THEN LStrip(From(s, 2)) ELSE s

RECURSIVE RStrip(_)
RStrip(s) ==
    IF Len(s) > 0 /\ CharAt(s, Len(s)) \in WhiteSpace
    THEN RStrip(Slice(s, 1, Len(s) - 1)) ELSE s

\* str.strip()
Strip(s) == LStrip(RStrip(s))

Digits == {"0", "1", "2", "3", "4", "5", "6", "7", "8", "9"}

UpperCase == <<"A", "B", "C", "D", "E", "F", "G", "H", "I", "J", "K", "L", "M",
               "N", "O", "P", "Q", "R", "S", "T", "U", "V", "W", "X", "Y", "Z">>

LowerCase == <<"a", "b", "c", "d", "e", "f", "g", "h", "i", "j", "k", "l", "m",
               "n", "o", "p", "q", "r", "s", "t", "u", "v", "w", "x", "y", "z">>

LowerChar(c) ==
    IF \E k \in 1..26 : UpperCase[k] = c
    THEN LowerCase[CHOOSE k \in 1..26 : UpperCase[k] = c]
    ELSE c

RECURSIVE Lower(_)
\* str.lower()
Lower(s) == IF Len(s) = 0 THEN "" ELSE LowerChar(CharAt(s, 1)) \o Lower(From(s, 2))

AllIn(s, chars) == \A i \in 1..Len(s) : CharAt(s, i) \in chars

IdentChars == Digits \cup {"_"} \cup {LowerCase[k] : k \in 1..26} \cup {UpperCase[k] : k \in 1..26}

(***************************************************************************)
(* Python conversions used by typeFix                                      *)
(***************************************************************************)

IsDigits(s) == Len(s) > 0 /\ AllIn(s, Digits)

Unsigned(s) == IF Len(s) > 0 /\ CharAt(s, 1) \in {"-", "+"} THEN From(s, 2) ELSE s

\* int(s) of a str succeeds (otherwise it raises ValueError).
IntParses(s) == IsDigits(Unsigned(Strip(s)))

\* float(s) of a str succeeds (otherwise it raises ValueError).
\* Digits around the point at position d, at least one digit.
DottedDigits(s, d) ==
    /\ d > 0
    /\ Len(s) > 1
    /\ AllIn(Slice(s, 1, d - 1), Digits)
    /\ AllIn(From(s, d + 1), Digits)

FloatText(u) ==
    \/ IsDigits(u)
    \/ Lower(u) \in {"nan", "inf", "infinity"}
    \/ DottedDigits(u, Find(u, "."))

FloatParses(s) == FloatText(Unsigned(Strip(s)))

BuiltinTypeNames == {"int", "str", "float", "bool", "list", "dict", "tuple", "set", "object", "type"}

BuiltinFunctionNames == {"len", "min", "max", "abs", "sum", "open", "print", "id"}

IsIdentifier(s) == Len(s) > 0 /\ AllIn(s, IdentChars) /\ CharAt(s, 1) \notin Digits

\* An integer literal of the language: no leading zero unless all zeros.
IsIntLiteral(s) == IsDigits(s) /\ (Len(s) > 1 /\ CharAt(s, 1) = "0" => AllIn(s, {"0"}))

IsFloatLiteral(s) == DottedDigits(s, Find(s, "."))

IsQuoted(s) ==
    /\ Len(s) >= 2
    /\ CharAt(s, 1) \in {"'", "\""}
    /\ CharAt(s, Len(s)) = CharAt(s, 1)
    /\ Find(Slice(s, 2, Len(s) - 1), CharAt(s, 1)) = 0

\* The outcome of evaluating one scalar expression: the kind of the value
\* (its Python type), or the exception raised; str carries a str's text.
Kind(k) == [kind |-> k, str |-> ""]

\* A quotient of two integer literals, q being the position of the "/".
EvalQuotient(e, q) ==
    IF q > 0 /\ IsIntLiteral(Slice(e, 1, q - 1)) /\ IsIntLiteral(From(e, q + 1))
    THEN IF AllIn(From(e, q + 1), {"0"}) THEN Kind("ZeroDivisionError") ELSE Kind("float")
    ELSE Kind("SyntaxError")

\* u is e without its sign.
EvalSigned(e, u) ==
    IF IsIntLiteral(u) THEN Kind("int")
    ELSE IF IsFloatLiteral(u) THEN Kind("float")
    ELSE IF IsQuoted(e) THEN [kind |-> "str", str |-> Slice(e, 2, Len(e) - 1)]
    ELSE IF e \in {"True", "False"} THEN Kind("bool")
    ELSE IF e = "None" THEN Kind("NoneType")
    ELSE IF e \in BuiltinTypeNames THEN Kind("type")
    ELSE IF e \in BuiltinFunctionNames THEN Kind("builtin")
    ELSE IF IsIdentifier(e) THEN Kind("NameError")
    ELSE EvalQuotient(e, Find(e, "/"))

EvalScalar(e) == EvalSigned(e, Unsigned(e))

Exceptions == {"NameError", "SyntaxError", "ZeroDivisionError", "TypeError",
               "AttributeError", "IndexError", "ValueError"}

\* The items of a bracketed display, each evaluated as a scalar.
KindsOf(items) == {EvalScalar(Strip(items[i])).kind : i \in 1..Len(items)}

\* One key: value item of a dict display evaluates.
DictItem(kv) ==
    /\ Len(kv) = 2
    /\ \A j \in 1..2 : EvalScalar(Strip(kv[j])).kind \notin Exceptions

\* The kind of the display that opens with the given bracket; between
\* braces there is a dict, a set, or a syntax error.
DisplayKind(open, inner, items) ==
    IF open = "[" THEN "list"
    ELSE IF open = "(" THEN "tuple"
    ELSE IF inner = "" \/ \A i \in 1..Len(items) : DictItem(Split(items[i], ":")) THEN "dict"
    ELSE IF \A i \in 1..Len(items) : Find(items[i], ":") = 0 THEN "set"
    ELSE "SyntaxError"

\* A display of kind k; bad are the exceptions its items raise.
DisplayOf(k, inner, bad) ==
    IF inner = "" \/ k \in {"dict", "SyntaxError"} THEN Kind(k)
    ELSE IF "SyntaxError" \in bad THEN Kind("SyntaxError")
    ELSE IF bad # {} THEN Kind(CHOOSE b \in bad : TRUE)
    ELSE Kind(k)

Display(open, inner, items) ==
    DisplayOf(DisplayKind(open, inner, items), inner, KindsOf(items) \cap Exceptions)

Brackets == {<<"[", "]">>, <<"(", ")">>, <<"{", "}">>}

\* e is a list, tuple, dict or set display; one expression in parentheses
\* is none.
IsDisplay(e, open, close, inner) ==
    /\ Len(e) >= 2
    /\ <<open, close>> \in Brackets
    /\ ~(open = "(" /\ inner # "" /\ Find(inner, ",") = 0)

\* e between open and close, inner being what is between them.
EvalBracketed(e, open, close, inner) ==
    IF IsDisplay(e, open, close, inner) THEN Display(open, inner, Split(inner, ","))
    ELSE EvalScalar(IF Len(e) >= 2 /\ open = "(" /\ close = ")" THEN inner ELSE e)

EvalStripped(e) ==
    EvalBracketed(e, CharAt(e, 1), CharAt(e, Len(e)), Strip(Slice(e, 2, Len(e) - 1)))

\* eval(compile(ast.parse(f"t = {default_value}"))) and type(l["t"]), for
\* the literal forms: numbers, quoted text, True/False, names, a quotient
\* of two integers, and list/tuple/dict displays of scalars.
PyEval(text) == EvalStripped(Strip(text))

(***************************************************************************)
(* typeFix                                                                 *)
(***************************************************************************)

\* VALUE_TYPES: Python type -> DALiuGE type tag; types outside the table
\* have no entry.
VALUE_TYPES ==
    [str |-> "String", int |-> "Integer", float |-> "Float", bool |-> "Boolean",
     list |-> "Json", dict |-> "Json", tuple |-> "Json"]

VALUE_TYPES_values == {VALUE_TYPES[k] : k \in DOMAIN VALUE_TYPES}

Return(v) == [raised |-> "", value |-> v]

Raise(e) == [raised |-> e, value |-> ""]

TypeRexKeywords == <<"bool", "boolean", "int", "float", "string", "str">>

\* typerex matches at position i with its k-th keyword.
TypeRexHit(s, i, k) ==
    /\ CharAt(s, i) \in {"(", "["}
    /\ Slice(s, i + 1, i + Len(TypeRexKeywords[k])) = TypeRexKeywords[k]
    /\ CharAt(s, i + Len(TypeRexKeywords[k]) + 1) \in {"]", ")"}

\* The keyword of the match at position i, "" when i is 0.
TypeRexKeywordAt(s, i) ==
    IF i = 0 THEN ""
    ELSE TypeRexKeywords[SetMin({k \in 1..Len(TypeRexKeywords) : TypeRexHit(s, i, k)})]

\* re.findall(typerex, value_type)[0], "" when the list is empty: the
\* keyword of the leftmost bracketed primitive.
TypeRexFirst(s) ==
    TypeRexKeywordAt(s, FirstOrZero({i \in 1..Len(s) :
                                       \E k \in 1..Len(TypeRexKeywords) : TypeRexHit(s, i, k)}))

RECURSIVE SplitBrackets(_)
\* re.split at the first bracket, at position i.
SplitBracketsAt(s, i) ==
    IF i = 0 THEN <<s>>
    ELSE <<Slice(s, 1, i - 1)>> \o SplitBrackets(From(s, i + 1))

\* re.split(r"[\[\]\(\)]", s)
SplitBrackets(s) ==
    SplitBracketsAt(s, FirstOrZero({i \in 1..Len(s) : CharAt(s, i) \in {"[", "]", "(", ")"}}))

\* Lines 151-154: "we only want stuff in parentheses".
SecondOrFirst(v_type) == IF Len(v_type) > 1 THEN v_type[2] ELSE v_type[1]

typeFixTail(value_type) ==
    IF value_type = PyNone THEN Raise("TypeError")
    ELSE Return(SecondOrFirst(SplitBrackets(value_type)))

\* Lines 125-148: the extra tests made when the guessed type is String;
\* isStr says whether default_value is (still) a str, text is its text.
typeFixStringTests(isStr, text) ==
    IF ~isStr THEN "String"
    ELSE IF IntParses(text) THEN "Integer"
    ELSE IF FloatParses(text) THEN "Float"
    ELSE IF text # "" /\ Lower(text) \in {"true", "false"} THEN "Boolean"
    ELSE "String"

\* Lines 113-148: ev is what evaluating the default value gave.
typeFixGuessed(default_value, ev) ==
    LET caught == ev.kind \in {"NameError", "SyntaxError"}
        keepsText == caught \/ ev.kind = "type"
        vt == IF keepsText THEN "str" ELSE ev.kind
        value_type == IF vt \in DOMAIN VALUE_TYPES THEN VALUE_TYPES[vt] ELSE "String"
        text == IF keepsText THEN default_value ELSE ev.str
    IN  IF ev.kind \in Exceptions /\ ~caught THEN Raise(ev.kind)
        ELSE IF value_type = "String"
             THEN typeFixTail(typeFixStringTests(vt = "str", text))
             ELSE typeFixTail(value_type)

\* Lines 94-150: guess the type from the default value.
typeFixGuess(default_value) == typeFixGuessed(default_value, PyEval(default_value))

\* Lines 71-154: re_type is the first match of typerex, "" without one.
typeFixMatched(value_type, default_value, re_type) ==
         LET fixed == IF re_type \in {"bool", "boolean"} THEN "Boolean"
                      ELSE IF re_type = "int" THEN "Integer"
                      ELSE IF re_type = "float" THEN "Float"
                      ELSE IF re_type \in {"string", "str"} THEN "String"
                      ELSE IF default_value # "" THEN default_value
                      ELSE value_type
         IN  IF /\ re_type = ""
                /\ default_value # ""
                /\ default_value # PyNone
                /\ default_value # "None"
             THEN typeFixGuess(default_value)
             ELSE typeFixTail(fixed)

typeFix(value_type, default_value) ==
    IF value_type = PyNone THEN Raise("TypeError")
    ELSE typeFixMatched(value_type, default_value, TypeRexFirst(value_type))

(***************************************************************************)
(* Insertion-ordered dictionaries: sequences of [k, v] entries             *)
(***************************************************************************)

DictKeys(d) == {d[i].k : i \in 1..Len(d)}

DictHas(d, key) == key \in DictKeys(d)

DictIndex(d, key) == CHOOSE i \in 1..Len(d) : d[i].k = key

DictGet(d, key) == d[DictIndex(d, key)].v

\* d[key] = val, also d.update({key: val}): an existing key keeps its place.
DictPut(d, key, val) ==
    IF DictHas(d, key) THEN [d EXCEPT ![DictIndex(d, key)].v = val]
    ELSE Append(d, [k |-> key, v |-> val])

RECURSIVE DictUpdate(_, _)
\* d.update(e)
DictUpdate(d, e) ==
    IF Len(e) = 0 THEN d
    ELSE DictUpdate(DictPut(d, e[1].k, e[1].v), Tail(e))

(***************************************************************************)
(* DetailedDescription                                                     *)
(***************************************************************************)

KNOWN_FORMATS == <<"rEST", "Google", "Numpy", "casa">>

Contains(s, sub) == Find(s, sub) > 0

\* rc.search(ds) for the pattern of KNOWN_FORMATS[k].
FormatMatches(k, ds) ==
    CASE k = "rEST" ->
             \/ Contains(ds, "\n:param ")
             \/ Contains(ds, "\n:returns ")
             \/ Contains(ds, "\nReturns: ")
      [] k = "Google" -> Contains(ds, "\nArgs:")
      [] k = "Numpy" -> Contains(ds, "\nParameters\n----------")
      [] k = "casa" ->
             \E i \in 1..Len(ds) : \E n \in 2..20 :
                 /\ CharAt(ds, i) = "\n"
                 /\ AllIn(Slice(ds, i + 1, i + n), {"-"})
                 /\ Slice(ds, i + n + 1, i + n + 10) = " parameter"

RECURSIVE StripEach(_)
StripEach(lines) ==
    IF Len(lines) = 0 THEN <<>> ELSE <<Strip(lines[1])>> \o StripEach(Tail(lines))

\* Lines 522-525: the text the patterns are searched in.
StrippedText(description) ==
    IF description = PyNone THEN ""
    ELSE IF Contains(description, "\n") THEN Join(StripEach(Split(description, "\n")), "\n")
    ELSE description

RECURSIVE IdentifyLoop_FirstMatch(_, _, _)
\* IdentifyLoop that leaves the loop at the first pattern that matches.
IdentifyLoop_FirstMatch(ds, i, fmt) ==
    IF i > Len(KNOWN_FORMATS) THEN fmt
    ELSE IF FormatMatches(KNOWN_FORMATS[i], ds) THEN KNOWN_FORMATS[i]
    ELSE IdentifyLoop_FirstMatch(ds, i + 1, fmt)

RECURSIVE IdentifyLoop(_, _, _)
\* Lines 526-529: the loop over KNOWN_FORMATS.items(); fmt is self.format.
IdentifyLoop(ds, i, fmt) ==
    IF i > Len(KNOWN_FORMATS) THEN fmt
    ELSE IdentifyLoop(ds, i + 1,
                      IF FormatMatches(KNOWN_FORMATS[i], ds) THEN KNOWN_FORMATS[i] ELSE fmt)

\* self.format after _identify_format(), self.format being "" before.
identify_format(description) == IdentifyLoop(StrippedText(description), 1, "")

\* self.description after _gen_code_block().
gen_code_block(description) ==
    IF description = PyNone \/ description = "" THEN description
    ELSE Replace(description, "\n", "\n    ")

RECURSIVE CleanLines(_)
\* [p.replace("\n", "").strip() for p in parts]
CleanLines(parts) ==
    IF Len(parts) = 0 THEN <<>>
    ELSE <<Strip(Replace(parts[1], "\n", ""))>> \o CleanLines(Tail(parts))

\* s[:i] of Python for the position i found, s when nothing was found.
Before(s, i) == IF i = 0 THEN s ELSE Slice(s, 1, i - 1)

\* re.split(r"[,\s\n]", s)[0]
FirstToken(s) == Before(s, FirstOrZero({i \in 1..Len(s) : CharAt(s, i) \in WhiteSpace \cup {","}}))

\* s[:s.find(marker)] when the marker is found, s otherwise.
UpTo(s, marker) == Before(s, Find(s, marker))

\* Lines 327-343: the entry of a parameter with the given description.
rEST_entry(param_description, hasTypes) ==
    [desc |-> param_description,
     type |-> IF hasTypes THEN PyNone
              ELSE typeFix(FirstToken(Strip(param_description)), "").value]

\* Lines 310-343: one param line, colon being the position of its colon
\* (0: the line is skipped).
rEST_param(result, p_line, colon, hasTypes) ==
    IF colon = 0 THEN result
    ELSE DictPut(result, Strip(Slice(p_line, 1, colon - 1)),
                 rEST_entry(UpTo(Strip(From(p_line, colon + 2)), ":type"), hasTypes))

RECURSIVE rEST_params(_, _, _)
\* Lines 307-343: the loop over param_lines.
rEST_params(param_lines, hasTypes, result) ==
    IF Len(param_lines) = 0 THEN result
    ELSE rEST_params(Tail(param_lines), hasTypes,
                     rEST_param(result, param_lines[1], Find(param_lines[1], ":"), hasTypes))

\* Lines 365-370: the type goes to a parameter that is in the result.
rEST_setType(result, param_name, param_type) ==
    IF DictHas(result, param_name)
    THEN [result EXCEPT ![DictIndex(result, param_name)].v.type = param_type]
    ELSE result

\* Lines 348-370: one type line, colon being the position of its colon.
rEST_type(result, t_line, colon) ==
    IF colon = 0 THEN result
    ELSE rEST_setType(result, Strip(Slice(t_line, 1, colon - 1)),
                      typeFix(UpTo(Strip(From(t_line, colon + 2)), ":param"), "").value)

RECURSIVE rEST_types(_, _)
\* Lines 345-370: the loop over type_lines.
rEST_types(type_lines, result) ==
    IF Len(type_lines) = 0 THEN result
    ELSE rEST_types(Tail(type_lines), rEST_type(result, type_lines[1], Find(type_lines[1], ":")))

\* Lines 286-291
rEST_split_str(detailed_description) ==
    IF Contains(detailed_description, "Returns:") THEN "Returns:"
    ELSE IF Contains(detailed_description, ":returns") THEN ":returns"
    ELSE ""

\* Lines 292-296: the text before the returns marker.
rEST_head(detailed_description, split_str) ==
    IF split_str # "" THEN Split(detailed_description, split_str)[1]
    ELSE detailed_description

\* Lines 307-370: both loops.
rEST_result(param_lines, type_lines) ==
    rEST_types(type_lines, rEST_params(param_lines, Len(type_lines) # 0, <<>>))

\* Lines 297-372, detailed_description being the text before the returns
\* marker.
rEST_body(detailed_description) ==
    [raised |-> "",
     main_descr |-> Strip(Split(detailed_description, ":param")[1]),
     params |-> rEST_result(CleanLines(Tail(Split(detailed_description, ":param"))),
                            CleanLines(Tail(Split(detailed_description, ":type"))))]

\* _process_rEST: (description, parameter dictionary)
process_rEST(detailed_description) ==
    rEST_body(rEST_head(detailed_description, rEST_split_str(detailed_description)))

\* seq[start:stop] of Python for start >= 0 and any stop (negative counts
\* from the end).
PySlice(seq, start, stop) ==
    LET n == Len(seq)
        e0 == IF stop < 0 THEN stop + n ELSE stop
        e == IF e0 < 0 THEN 0 ELSE IF e0 > n THEN n ELSE e0
    IN  IF start >= e THEN <<>> ELSE SubSeq(seq, start + 1, e)

\* The three character classes of the pattern of cleanString.
CsiParams == Digits \cup {":", ";", "<", "=", ">", "?"}

CsiIntermediates == {" ", "!", "\"", "#", "$", "%", "&", "'", "(", ")", "*", "+", ",", "-", ".", "/"}

\* (the backquote, also in this class, cannot be written in a string here
\* and occurs in no text of the model)
CsiFinals ==
    {LowerCase[k] : k \in 1..26} \cup {UpperCase[k] : k \in 1..26}
        \cup {"@", "[", "\\", "]", "^", "_", "{", "|", "}", "~"}

RECURSIVE SkipWhile(_, _, _)
\* The first position from p on whose character is outside chars.
SkipWhile(s, p, chars) ==
    IF p <= Len(s) /\ CharAt(s, p) \in chars THEN SkipWhile(s, p + 1, chars) ELSE p

\* Where the final character of a sequence that opens at position i is.
CsiEnd(s, i) == SkipWhile(s, SkipWhile(s, i + 1, CsiParams), CsiIntermediates)

RECURSIVE cleanString(_)
\* input_text without the sequence that opens at position i, and without
\* the later ones; input_text itself when i is 0.
CsiCut(input_text, i) ==
    IF i = 0 THEN input_text
    ELSE Slice(input_text, 1, i - 1) \o cleanString(From(input_text, CsiEnd(input_text, i) + 1))

\* re.sub(r"\[[0-?]*[ -/]*[@-~]", "", input_text)
cleanString(input_text) ==
    CsiCut(input_text,
           FirstOrZero({i \in 1..Len(input_text) :
                           /\ CharAt(input_text, i) = "["
                           /\ CharAt(input_text, CsiEnd(input_text, i)) \in CsiFinals}))

\* The 0-based indexes of the lines that contain the marker.
LinesWith(dList, marker) == {i \in 0..(Len(dList) - 1) : Contains(dList[i + 1], marker)}

TopLevel(p) == Len(p) > 0 /\ CharAt(p, 1) # " "

RECURSIVE NonEmptyStripped(_)
\* [p.strip() for p in lines if len(p.strip()) > 0]
NonEmptyStripped(lines) ==
    IF Len(lines) = 0 THEN <<>>
    ELSE IF Len(Strip(lines[1])) > 0
         THEN <<Strip(lines[1])>> \o NonEmptyStripped(Tail(lines))
         ELSE NonEmptyStripped(Tail(lines))

\* Lines 469-476: start_ind
casa_start(starts) == IF starts = {} THEN 0 ELSE SetMin(starts) + 1

\* Lines 477-484: end_ind
casa_end(ends) == IF ends = {} THEN 0 - 1 ELSE SetMin(ends)

\* Lines 492-508: name and documentation of one parameter; cut is its first
\* line split at the first blank, more are its further lines.
casa_entry(cut, more, hasMore) ==
    [k |-> cut[1],
     v |-> IF hasMore THEN Strip(cut[2]) \o " " \o Join(more, " ") ELSE Strip(cut[2])]

\* The parameter whose lines are paramsList[sidx .. eidx - 1].
casa_pair(paramsList, sidx, eidx) ==
    casa_entry(Split1(Strip(paramsList[sidx]), " "),
               NonEmptyStripped(PySlice(paramsList, sidx, eidx - 1)),
               sidx < eidx)

\* Lines 491-514: tops are the places in paramsList of the lines that
\* start a parameter.
casa_docs(comp_description, paramsList, tops) ==
    IF \E i \in 1..Len(tops) : Find(Strip(paramsList[tops[i]]), " ") = 0
    THEN [raised |-> "IndexError", main_descr |-> "", params |-> <<>>]
    ELSE [raised |-> "",
          main_descr |-> comp_description,
          params |-> DictUpdate(<<>>,
                        [i \in 1..Len(tops) |->
                            casa_pair(paramsList, tops[i],
                                      IF i < Len(tops) THEN tops[i + 1]
                                      ELSE Len(paramsList) - 1)])]

\* Lines 486-490: paramsSidx
casa_params(comp_description, paramsList) ==
    casa_docs(comp_description, paramsList,
              SelectSeq([i \in 1..Len(paramsList) |-> i], LAMBDA i : TopLevel(paramsList[i])))

\* Lines 485, 510-512: paramsList and comp_description
casa_range(dList, start_ind, end_ind) ==
    casa_params(Join(PySlice(dList, 0, start_ind - 1), "\n"), PySlice(dList, start_ind, end_ind))

\* Lines 468-484
casa_lines(dList) ==
    casa_range(dList, casa_start(LinesWith(dList, "- parameter")),
               casa_end(LinesWith(dList, "- example")))

\* _process_casa: (description, {name: doc}); the values are plain texts.
process_casa(dd) == casa_lines(Split(cleanString(dd), "\n"))

RECURSIVE Spaces(_)
\* " " * n
Spaces(n) == IF n <= 0 THEN "" ELSE " " \o Spaces(n - 1)

\* The last position of the run of characters of chars that starts at p.
RunEnd(s, p, chars) == SkipWhile(s, p, chars) - 1

\* A word that starts at position i is followed by the suffix.
WordHit(s, i, suffix) ==
    /\ CharAt(s, i) \in IdentChars
    /\ Slice(s, RunEnd(s, i, IdentChars) + 1, RunEnd(s, i, IdentChars) + Len(suffix)) = suffix

RECURSIVE SplitWord(_, _)
\* The split at the word from position i0 to position e0.
SplitWordRun(s, suffix, i0, e0) ==
    <<Slice(s, 1, i0 - 1), Slice(s, i0, e0)>> \o SplitWord(From(s, e0 + Len(suffix) + 1), suffix)

SplitWordAt(s, suffix, i0) ==
    IF i0 = 0 THEN <<s>> ELSE SplitWordRun(s, suffix, i0, RunEnd(s, i0, IdentChars))

\* re.split(r"([\w_]+)" + suffix, s): the texts between the matches
\* alternate with the matched words.
SplitWord(s, suffix) ==
    SplitWordAt(s, suffix, FirstOrZero({i \in 1..Len(s) : WordHit(s, i, suffix)}))

\* The part of s before the leftmost occurrence of a or of b.
BeforeEither(s, a, b) == Before(s, FirstOrZero({i \in {Find(s, a), Find(s, b)} : i > 0}))

RECURSIVE NumpyDict(_, _)
\* Lines 399-407: dict(zip(spds[::2], spds[1::2])) and the comprehension.
NumpyDict(spds, pdict) ==
    IF Len(spds) < 2 THEN pdict
    ELSE NumpyDict(Tail(Tail(spds)),
                   DictPut(pdict, spds[1],
                           [desc |-> Replace(spds[2], "\n", " "),
                            type |-> typeFix(FirstToken(Strip(spds[2])), "").value]))

RECURSIVE StripNewlines(_)
\* str.strip("\n")
StripNewlines(s) ==
    IF Len(s) > 0 /\ CharAt(s, 1) = "\n" THEN StripNewlines(From(s, 2))
    ELSE IF Len(s) > 0 /\ CharAt(s, Len(s)) = "\n" THEN StripNewlines(Slice(s, 1, Len(s) - 1))
    ELSE s

\* Lines 396-398: spds, spds1 being the first split.
Numpy_spds(has_params, pds0, spds1) ==
    IF has_params /\ Len(spds1) = 0 THEN Tail(SplitWord(pds0, "\n    ")) ELSE spds1

\* Lines 395-411: pds0 is pds[0].
Numpy_params(description, has_params, pds0) ==
    [raised |-> "",
     main_descr |-> description,
     params |-> NumpyDict(Numpy_spds(has_params, pds0, Tail(SplitWord(pds0, " : "))), <<>>)]

\* Lines 393-395
Numpy_rest(description, rest) ==
    Numpy_params(description, description # rest,
                 BeforeEither(rest, "\nReturns\n-------\n", "\nRaises\n------\n"))

\* Lines 388-392
Numpy_sections(dss) == Numpy_rest(dss[1], IF Len(dss) = 2 THEN dss[2] ELSE "")

\* Lines 384-387: ds0 is dd without the newlines around it.
Numpy_stripped(ds0) ==
    Numpy_sections(Split(LStrip(Replace(ds0, "\n" \o Spaces(Len(ds0) - Len(LStrip(ds0))), "\n")),
                         "\nParameters\n----------\n"))

\* _process_Numpy: (description, parameter dictionary)
process_Numpy(dd) == Numpy_stripped(StripNewlines(dd))

\* The characters a Google-style type may hold (see CsiFinals for the
\* backquote).
GoogleTypeChars == IdentChars \cup {":", "+", ".", "[", "]", ",", " "}

\* The position of ch right after position p, or after one white space
\* after p; 0 when it is at neither place.
AfterOptionalSpace(s, p, ch) ==
    IF CharAt(s, p + 1) = ch THEN p + 1
    ELSE IF CharAt(s, p + 1) \in WhiteSpace /\ CharAt(s, p + 2) = ch THEN p + 2
    ELSE 0

\* The outcome of a match that starts at i: the name is at w1..w2, the
\* parenthesis opens at o, the type ends at t2 and the colon is at c.
GoogleGroups(s, i, w1, w2, o, t2, c) ==
    [ok |-> /\ CharAt(s, i) \in {"\n", " "}
            /\ w2 >= w1
            /\ o > 0
            /\ t2 >= o + 1
            /\ CharAt(s, t2 + 1) = ")"
            /\ c > 0,
     name |-> Slice(s, w1, w2),
     type |-> Slice(s, o + 1, t2),
     end |-> c]

GoogleParen(s, i, w1, w2, o) ==
    GoogleGroups(s, i, w1, w2, o, RunEnd(s, o + 1, GoogleTypeChars),
                 AfterOptionalSpace(s, RunEnd(s, o + 1, GoogleTypeChars) + 1, ":"))

GoogleWord(s, i, w1) ==
    GoogleParen(s, i, w1, RunEnd(s, w1, IdentChars),
                AfterOptionalSpace(s, RunEnd(s, w1, IdentChars), "("))

\* A match of r"[\n ]+([\w_]+)\s?\(([`\:\w+\.\[\]\, ]+)\)\s?:" that starts
\* at position i: whether there is one, its two groups and its last position.
GoogleMatchAt(s, i) == GoogleWord(s, i, SkipWhile(s, i, {"\n", " "}))

RECURSIVE GoogleSplit(_)
\* The split at the match m that starts at position i.
GoogleSplitMatch(s, i, m) ==
    <<Slice(s, 1, i - 1), m.name, m.type>> \o GoogleSplit(From(s, m.end + 1))

GoogleSplitAt(s, i) == IF i = 0 THEN <<s>> ELSE GoogleSplitMatch(s, i, GoogleMatchAt(s, i))

\* re.split of the pattern above: texts alternate with (name, type) pairs.
GoogleSplit(s) == GoogleSplitAt(s, FirstOrZero({i \in 1..Len(s) : GoogleMatchAt(s, i).ok}))

RECURSIVE GoogleDict(_, _)
\* Lines 438-447: dict(zip(spds[::3], zip(spds[1::3], spds[2::3])))
GoogleDict(spds, pdict) ==
    IF Len(spds) < 3 THEN pdict
    ELSE GoogleDict(Tail(Tail(Tail(spds))),
                    DictPut(pdict, spds[1],
                            [desc |-> Strip(Replace(spds[3], "\n", " ")),
                             type |-> typeFix(spds[2], "").value]))

\* The positions where r"\n[ ]*Args:" matches.
ArgsHeaders(dd) ==
    {i \in 1..Len(dd) :
        /\ CharAt(dd, i) = "\n"
        /\ Slice(dd, SkipWhile(dd, i + 1, {" "}), SkipWhile(dd, i + 1, {" "}) + 4) = "Args:"}

\* Lines 430-448: pds0 is the text between the Args and Returns headers.
Google_params(description, pds0) ==
    [raised |-> "",
     main_descr |-> description,
     params |-> GoogleDict(Tail(GoogleSplit(Replace(pds0,
                                                    "\n" \o Spaces(SkipWhile(pds0, 1, {" "}) - 1),
                                                    "\n"))),
                           <<>>)]

\* Lines 427-430: the unpacking of the split at the Args header.
Google_parts(parts) ==
    IF Len(parts) # 2 THEN [raised |-> "ValueError", main_descr |-> "", params |-> <<>>]
    ELSE Google_params(parts[1], Split(parts[2], "\nReturns:\n")[1])

\* Lines 424-427
Google_indented(dd0, indent) ==
    Google_parts(Split(IF indent = 0 THEN dd0 ELSE Replace(dd0, Spaces(indent), ""),
                       "\nArgs:\n"))

\* Line 423: heads are the matches of the Args header.
Google_heads(dd0, heads) ==
    IF heads = {} THEN [raised |-> "IndexError", main_descr |-> "", params |-> <<>>]
    ELSE Google_indented(dd0, SkipWhile(dd0, SetMin(heads) + 1, {" "}) - SetMin(heads) - 1)

\* _process_Google: (description, parameter dictionary)
process_Google(dd0) == Google_heads(dd0, ArgsHeaders(dd0))

\* process_descr after _gen_code_block: dispatch on self.format.
process_descr(description, format) ==
    CASE format = "rEST" -> process_rEST(description)
      [] format = "Google" -> process_Google(description)
      [] format = "Numpy" -> process_Numpy(description)
      [] format = "casa" -> process_casa(description)
      [] OTHER -> [raised |-> "", main_descr |-> description, params |-> <<>>]

\* Lines 265-271: the attributes, r being what process_descr gave.
DescriptionAttributes(fmt, description, r) ==
    [raised |-> r.raised,
     description |-> description,
     format |-> fmt,
     main_descr |-> r.main_descr,
     params |-> r.params,
     brief_descr |-> IF r.raised = "" /\ r.main_descr # PyNone /\ r.main_descr # ""
                     THEN Split(r.main_descr, ".")[1] \o "."
                     ELSE ""]

\* Lines 540-553: description is the text after _gen_code_block.
DescriptionOf(fmt, description) ==
    DescriptionAttributes(fmt, description, process_descr(description, fmt))

\* DetailedDescription.__init__: the attributes of the new object, or the
\* exception that leaves the constructor.
DetailedDescription(descr) == DescriptionOf(identify_format(descr), gen_code_block(descr))

(***************************************************************************)
(* XML sub-nodes of a memberdef                                            *)
(***************************************************************************)

\* A child element that is not there (as opposed to one whose text is None).
Absent == "\t<absent>"

\* str(x) of a text or None.
PyStr(x) == IF x = PyNone THEN "None" ELSE x

\* A great-grandchild element.  text is its text (for detaileddescription
\* the text of ggchild[0][0], Absent when that path does not exist); type,
\* ref, name and defval are the texts of a param's type element, of the ref
\* element inside it, of its declname/defname and of its defval.
XmlNode(tag, text, type, ref, name, defval) ==
    [tag |-> tag, text |-> text, type |-> type, ref |-> ref, name |-> name, defval |-> defval]

NameNode(text) == XmlNode("name", text, Absent, Absent, Absent, Absent)

ArgsNode(text) == XmlNode("argsstring", text, Absent, Absent, Absent, Absent)

DescrNode(text) == XmlNode("detaileddescription", text, Absent, Absent, Absent, Absent)

DefinitionNode(text) == XmlNode("definition", text, Absent, Absent, Absent, Absent)

ParamNode(type, ref, name, defval) == XmlNode("param", Absent, type, ref, name, defval)

OtherNode(tag) == XmlNode(tag, Absent, Absent, Absent, Absent, Absent)

(***************************************************************************)
(* GreatGrandChild                                                         *)
(***************************************************************************)

\* GreatGrandChild(): the attributes after __init__ with the default
\* (childless, hence falsy) element.
NewGreatGrandChild ==
    [func_path |-> "", func_name |-> "Unknown", func_title |-> "Unknown",
     return_type |-> "Unknown", is_init |-> FALSE, is_classmethod |-> FALSE,
     is_member |-> FALSE, memberIsNone |-> FALSE, params |-> <<>>, raised |-> ""]

GGRaise(gg, e) == [gg EXCEPT !.raised = e]

\* s[-8:]
Last8(s) == Slice(s, Len(s) - 7, Len(s))

\* set_param_description: append to an existing entry, else nothing.
set_param_description(name, description, p_type, params) ==
    IF DictHas(params, name)
    THEN DictPut(params, name, DictGet(params, name) \o description)
    ELSE params

RECURSIVE SetDescriptions(_, _)
\* Lines 642-648: the loop over params.items() of the documentation.
SetDescriptions(docParams, params) ==
    IF Len(docParams) = 0 THEN params
    ELSE SetDescriptions(Tail(docParams),
                         set_param_description(docParams[1].k, docParams[1].v.desc,
                                               docParams[1].v.type, params))

\* Lines 607-613
process_name(gg, node) ==
    [gg EXCEPT !.func_name = IF gg.func_name = "Unknown" THEN node.text ELSE gg.func_name]

\* Lines 614-621: whether the argument list holds the name.
HasArg(args, a) == \E i \in 1..Len(args) : args[i] = a

\* Lines 617-620: self.func_title for the argument list.
ArgsTitle(func_title, args) ==
    IF HasArg(args, "cls") THEN Replace(func_title, ".", "@")
    ELSE IF HasArg(args, "self") THEN Replace(func_title, ".", "::")
    ELSE func_title

\* Lines 617-621
SetTitle(gg, title) ==
    [gg EXCEPT !.func_title = title, !.params = DictPut(gg.params, "text", title)]

\* Lines 614-621
process_argsstring(gg, node) ==
    IF node.text = PyNone THEN GGRaise(gg, "TypeError")
    ELSE SetTitle(gg, ArgsTitle(gg.func_title,
                                StripEach(Split(Slice(node.text, 2, Len(node.text) - 1), ","))))

\* Lines 649-652: what goes before the description.
DescriptionPrefix(gg) ==
    IF gg.is_classmethod THEN "_@classmethod_: "
    ELSE IF gg.is_member THEN "_::memberfunction_: "
    ELSE ""

\* Lines 630-657: ddO is the DetailedDescription made from the text dd.
MergeDocumentation(gg, dd, ddO) ==
    IF ddO.raised # "" THEN GGRaise(gg, ddO.raised)
    ELSE IF ddO.format = ""
         THEN [gg EXCEPT !.params = DictPut(gg.params, "description", DescriptionPrefix(gg) \o dd)]
    ELSE IF ddO.format = "casa" /\ Len(ddO.params) > 0 THEN GGRaise(gg, "TypeError")
    ELSE [gg EXCEPT !.params = DictPut(SetDescriptions(ddO.params, gg.params), "description",
                                       DescriptionPrefix(gg) \o ddO.main_descr)]

\* Lines 623-657
process_detaileddescription(gg, node) ==
    IF node.text \in {Absent, PyNone} THEN gg
    ELSE MergeDocumentation(gg, node.text, DetailedDescription(node.text))

\* Lines 718-721: the record of one parameter.
ParamValue(default_value, value_type, port, access, member_desc) ==
    default_value \o "/" \o value_type \o "/ApplicationArgument/" \o port \o "/"
        \o access \o "//False/False/" \o member_desc

\* Lines 665-677: value_type as the loop over the children of a param
\* leaves it.
DeclaredType(node) ==
    IF node.type = Absent THEN ""
    ELSE IF node.ref # Absent THEN node.ref
    ELSE IF node.type \in VALUE_TYPES_values THEN node.type
    ELSE "Object." \o PyStr(node.type)

\* Lines 666-684: default_value and name as the loop over the children of a
\* param leaves them.
DeclaredDefault(node) == IF node.defval = Absent THEN "" ELSE node.defval

DeclaredName(node) == IF node.name = Absent THEN "" ELSE PyStr(node.name)

\* Lines 697-714: the receiver rules.
ReceiverRules(gg, name0, value_type0, member_desc0) ==
    LET isRecv == name0 \in {"self", "cls"}
        port0 == IF Last8(gg.func_name) \notin {"__init__", "__call__"}
                 THEN "InputPort" ELSE "OutputPort"
    IN  [name |-> IF isRecv THEN "self" ELSE name0,
         is_classmethod |-> gg.is_classmethod \/ name0 = "cls",
         is_member |-> gg.is_member \/ name0 = "self",
         port |-> IF name0 = "cls" THEN "OutputPort" ELSE IF isRecv THEN port0 ELSE "NoPort",
         value_type |-> IF name0 = "cls" THEN "Object.self" ELSE value_type0,
         access |-> IF isRecv THEN "readonly" ELSE "readwrite",
         member_desc |-> IF isRecv THEN "Object reference" ELSE member_desc0]

\* SkipsReceiver that never leaves the receiver out.
SkipsReceiver_Never(casa_mode, name) == FALSE

\* Lines 715-725: whether the receiver is left out.
SkipsReceiver(casa_mode, name) == casa_mode /\ name = "self"

\* Lines 690-691: a default with a "/" is put in double quotes.
QuoteSlash(d) == IF Contains(d, "/") THEN "\"" \o d \o "\"" ELSE d

\* Lines 688-691: default_value for the record.
ParamDefault(value_type, default0) ==
    IF value_type = "String" THEN QuoteSlash(Replace(PyStr(default0), "'", ""))
    ELSE PyStr(default0)

\* Lines 693-696: the description the enclosing Child has for the name.
ParentDescription(parentParams, name0) ==
    IF DictHas(parentParams, name0) THEN DictGet(parentParams, name0) ELSE ""

\* Lines 705, 709: the flags the receiver rules set.
Flagged(gg, r) == [gg EXCEPT !.is_classmethod = r.is_classmethod, !.is_member = r.is_member]

\* Lines 715-725: r is the outcome of the receiver rules.
RecordParam(gg, casa_mode, default_value, r) ==
    IF SkipsReceiver(casa_mode, r.name) THEN Flagged(gg, r)
    ELSE [Flagged(gg, r) EXCEPT
              !.params = DictPut(gg.params, r.name,
                                 ParamValue(default_value, r.value_type, r.port, r.access,
                                            r.member_desc))]

\* Lines 685-725: fixed is the outcome of typeFix.
TypedParam(gg, casa_mode, parentParams, default0, name0, fixed) ==
    IF fixed.raised # "" THEN GGRaise(gg, fixed.raised)
    ELSE IF name0 \in {"self", "cls"} /\ gg.func_name = PyNone THEN GGRaise(gg, "TypeError")
    ELSE RecordParam(gg, casa_mode, ParamDefault(fixed.value, default0),
                     ReceiverRules(gg, name0, fixed.value,
                                   ParentDescription(parentParams, name0)))

\* Lines 659-725; casa_mode and parentParams are those of the Child that
\* walks the node.
process_param(gg, node, casa_mode, parentParams) ==
    TypedParam(gg, casa_mode, parentParams, DeclaredDefault(node), DeclaredName(node),
               typeFix(DeclaredType(node), DeclaredDefault(node)))

\* text.strip().split(" ")
Words(text) == Split(Strip(text), " ")

Last(seq) == seq[Len(seq)]

\* s.rsplit(sep, 1)[-1]
AfterLast(s, sep) == Last(RSplit1(s, sep))

\* IsPrivate without the test of the name.
IsPrivate_PathOnly(func_path, func_name) == Contains(func_path, "._")

\* Lines 757-760: the test that discards a function.
IsPrivate(func_path, func_name) == StartsWith(func_name, "_") \/ Contains(func_path, "._")

\* Lines 734-735: self.func_path and self.func_name.
PathAndName(gg, local_path) ==
    IF Contains(local_path, ".") THEN RSplit1(local_path, ".")
    ELSE <<gg.func_path, gg.func_name>>

\* Lines 732-771: pn is the pair of self.func_path and self.func_name.
NamedDefinition(gg, casa_mode, return_type, pn) ==
    LET func_path == pn[1]
        func_name == pn[2]
        returns == IF return_type = "def" THEN "None" ELSE return_type
        base == [gg EXCEPT !.return_type = returns, !.func_path = func_path,
                           !.func_name = func_name]
    IN  IF func_name # PyNone /\ func_name \in {"__init__", "__call__"}
        THEN IF ~casa_mode
             THEN [base EXCEPT !.is_init = TRUE,
                               !.func_title = AfterLast(func_path, ".") \o "." \o func_name,
                               !.func_name = func_path]
             ELSE [base EXCEPT !.is_init = TRUE,
                               !.func_title = AfterLast(func_path, "._"),
                               !.func_path = Split(func_path, "._")[1],
                               !.func_name = Split(func_path, "._")[1]]
        ELSE IF func_name = PyNone
             THEN GGRaise([base EXCEPT !.return_type = return_type], "AttributeError")
        ELSE IF IsPrivate(func_path, func_name)
             THEN [base EXCEPT !.return_type = return_type, !.memberIsNone = TRUE]
        ELSE [base EXCEPT !.func_title = AfterLast(func_path, ".") \o "." \o func_name,
                          !.func_name = func_path \o "." \o func_name]

\* Lines 728-731: w are the words of the definition.
DefinitionWords(gg, casa_mode, w) ==
    NamedDefinition(gg, casa_mode, w[1], PathAndName(gg, Last(w)))

\* Lines 727-771
process_definition(gg, node, casa_mode) ==
    IF node.text \in {PyNone, Absent} THEN GGRaise(gg, "AttributeError")
    ELSE DefinitionWords(gg, casa_mode, Words(node.text))

\* process_GreatGrandChild: dispatch on the tag of the element.
process_GreatGrandChild(gg, node, casa_mode, parentParams) ==
    CASE node.tag = "name" -> process_name(gg, node)
      [] node.tag = "argsstring" -> process_argsstring(gg, node)
      [] node.tag = "detaileddescription" -> process_detaileddescription(gg, node)
      [] node.tag = "param" -> process_param(gg, node, casa_mode, parentParams)
      [] node.tag = "definition" -> process_definition(gg, node, casa_mode)
      [] OTHER -> gg

(***************************************************************************)
(* Child._process_grandchild                                               *)
(***************************************************************************)

Languages == {"UNKNOWN", "C", "PYTHON"}

ParserOptions == "pickle,eval,npy,path,dataurl"

\* Lines 903-939: the fields every function gets.
CommonFields ==
    << [k |-> "input_parser",
        v |-> "pickle/Select/ComponentParameter/NoPort/readwrite/" \o ParserOptions
                \o "/False/False/Input port parsing technique"],
       [k |-> "output_parser",
        v |-> "pickle/Select/ComponentParameter/NoPort/readwrite/" \o ParserOptions
                \o "/False/False/Output port parsing technique"],
       [k |-> "execution_time",
        v |-> "5/Integer/ComponentParameter/NoPort/readwrite//False/False/"
                \o "Estimate of execution time (in seconds) for this application."],
       [k |-> "num_cpus",
        v |-> "1/Integer/ComponentParameter/NoPort/readwrite//False/False/Number of cores used."],
       [k |-> "group_start",
        v |-> "false/Boolean/ComponentParameter/NoPort/readwrite//False/False/"
                \o "Is this node the start of a group?"] >>

\* Lines 940-962: the fields that depend on the language.
LanguageFields(language) ==
    CASE language = "C" ->
             << [k |-> "category", v |-> "DynlibApp"],
                [k |-> "libpath",
                 v |-> " //String/ComponentParameter/NoPort/readwrite//False/False/"
                         \o "The location of the shared object/DLL that implements this application"] >>
      [] language = "PYTHON" ->
             << [k |-> "category", v |-> "PythonApp"],
                [k |-> "dropclass",
                 v |-> "dlg.apps.pyfunc.PyFuncApp/String/ComponentParameter/NoPort/readonly//False/"
                         \o "False/The python class that implements this application"] >>
      [] OTHER -> <<>>

\* Lines 903-962: member["params"] before the great-grandchildren are walked.
BookkeepingFields(language) == DictUpdate(CommonFields, LanguageFields(language))

\* Lines 980-986
FuncNameField(func_name) ==
    func_name \o "/String/ComponentParameter/NoPort/readonly//False/False/Complete import path of function"

\* Equality of two dictionaries, which ignores the order of the keys.
DictEq(a, b) ==
    /\ DictKeys(a) = DictKeys(b)
    /\ \A key \in DictKeys(a) : DictGet(a, key) = DictGet(b, key)

\* Lines 977-988: the parameters of the member that is returned; hasParent
\* says whether member carries the "description" key (line 967), which
\* gg.member never does.
MergeBookkeeping(ggParams, func_name, bookkeeping, hasParent) ==
    IF (hasParent \/ ~DictEq(ggParams, bookkeeping)) /\ Len(ggParams) # 0
    THEN DictPut(DictUpdate(ggParams, bookkeeping), "func_name", FuncNameField(func_name))
    ELSE bookkeeping

RECURSIVE WalkGreatGrandChildren(_, _, _, _)
\* Lines 969-976: the loop over the sub-nodes of one function node, which an
\* exception or an absent member leaves; selfParams is self.member["params"].
WalkGreatGrandChildren(gg, nodes, casa_mode, selfParams) ==
    IF Len(nodes) = 0 \/ gg.raised # "" \/ gg.memberIsNone THEN gg
    ELSE WalkGreatGrandChildren(process_GreatGrandChild(gg, nodes[1], casa_mode, selfParams),
                                Tail(nodes), casa_mode, selfParams)

\* What _process_grandchild gives.
Outcome(kind, e, params) == [kind |-> kind, exc |-> e, params |-> params]

\* Lines 971-997: what _process_grandchild gives for the GreatGrandChild the
\* loop has left; bookkeeping is member["params"].
GrandchildOutcome(gg, bookkeeping, hasParent) ==
    IF gg.raised # "" THEN Outcome("raised", gg.raised, <<>>)
    ELSE IF gg.memberIsNone THEN Outcome("None", "", <<>>)
    ELSE IF /\ gg.func_name = PyNone
            /\ (hasParent \/ ~DictEq(gg.params, bookkeeping)) /\ Len(gg.params) # 0
         THEN Outcome("raised", "TypeError", <<>>)
    ELSE Outcome("member", "", MergeBookkeeping(gg.params, gg.func_name, bookkeeping, hasParent))

\* _process_grandchild for a function memberdef with the given sub-nodes;
\* selfParams is self.member["params"] after line 966.
process_grandchild(nodes, lang, hasParent, casa_mode, selfParams) ==
    GrandchildOutcome(WalkGreatGrandChildren(NewGreatGrandChild, nodes, casa_mode, selfParams),
                      BookkeepingFields(lang), hasParent)

(***************************************************************************)
(* Inputs                                                                  *)
(***************************************************************************)

\* The largest number of sub-nodes of one function node.
MaxNodes == 3

\* A documentation block in rEST style that documents x in two fragments
\* and gives x a type.
DocRest == "Sum.\n:param x: first\n:type x: (int)\n:param x: second"

\* The sub-nodes a function node is made of.
NodeAlphabet ==
    { NameNode("foo"),
      ArgsNode("(self, x)"),
      DescrNode(DocRest),
      ParamNode(Absent, Absent, "self", Absent),
      ParamNode(Absent, Absent, "cls", Absent),
      ParamNode(Absent, Absent, "x", Absent),
      ParamNode("float", Absent, "x", "5"),
      ParamNode(Absent, Absent, "num_cpus", "8"),
      DefinitionNode("def pkg.mod.foo"),
      DefinitionNode("def pkg.mod._bar"),
      DefinitionNode("def pkg.Cls.__init__"),
      OtherNode("briefdescription") }

\* The sub-nodes of a function node that declare it: its name, definition
\* strings that are well formed, malformed, private in the name or in a
\* segment of the path, or of a constructor, and the receivers.
DeclarationAlphabet ==
    { NameNode("foo"),
      DefinitionNode(PyNone),
      DefinitionNode(""),
      DefinitionNode("def foo"),
      DefinitionNode("def pkg.mod.foo"),
      DefinitionNode("def _pkg.mod.foo"),
      DefinitionNode("def pkg._mod.foo"),
      DefinitionNode("def pkg.Cls.__init__"),
      ParamNode(Absent, Absent, "self", Absent),
      ParamNode(Absent, Absent, "cls", Absent),
      ParamNode("float", Absent, "cls", "5"),
      ParamNode(Absent, Absent, "cls", "1/0") }

\* The param sub-nodes of a function node by what their type element holds:
\* a reference to a named type, alone or after a qualifier, a plain token,
\* a token with brackets, a canonical tag, and a token or a reference next
\* to a default value.
SignatureAlphabet ==
    { NameNode("foo"),
      ParamNode(PyNone, "Foo", "a", Absent),
      ParamNode("const ", "Foo", "b", Absent),
      ParamNode("Foo", Absent, "c", Absent),
      ParamNode("float", Absent, "d", Absent),
      ParamNode("list[int]", Absent, "e", Absent),
      ParamNode("String", Absent, "f", Absent),
      ParamNode("Foo", Absent, "g", "5"),
      ParamNode(PyNone, "Foo", "h", "5") }

\* The sub-nodes of a function node whose parameters are named like the
\* title and the description of the function.
TitleAlphabet ==
    { NameNode("foo"),
      DefinitionNode("def pkg.mod.foo"),
      ArgsNode("(text, description, x)"),
      DescrNode("Sum."),
      DescrNode("Sum.\n:param description: the words"),
      ParamNode(Absent, Absent, "text", Absent),
      ParamNode(Absent, Absent, "description", Absent),
      ParamNode(Absent, Absent, "x", Absent) }

\* The largest number of function nodes in one function section.
MaxFunctions == 3

\* The function nodes a section is made of, each the sequence of its
\* sub-nodes: two functions with a parameter x, a private one, one whose
\* definition has no text, and one with a name only.
FunctionNodes ==
    { <<DefinitionNode("def pkg.mod.foo"), ParamNode("float", Absent, "x", "5")>>,
      <<DefinitionNode("def pkg.mod.baz"), ParamNode(Absent, Absent, "x", Absent)>>,
      <<DefinitionNode("def pkg.mod._bar")>>,
      <<DefinitionNode(PyNone)>>,
      <<NameNode("foo")>> }

Sections == UNION {[1..n -> FunctionNodes] : n \in 1..MaxFunctions}

\* The element whose children have all been visited, or not yet any.
NoElement == OtherNode("dummy")

\* The parent handed to Child.__init__: none, the Child of a compound
\* description, and one whose description is in casa style.
Parents ==
    { [exists |-> FALSE, casa_mode |-> FALSE, description |-> "", params |-> <<>>],
      [exists |-> TRUE, casa_mode |-> FALSE, description |-> "A compound.", params |-> <<>>],
      [exists |-> TRUE, casa_mode |-> TRUE, description |-> "A task.", params |-> <<>>] }

\* The (type token, default literal) pairs typeFix is applied to.
TypeTokens ==
    {PyNone, "", "(int)", "(bool)", "[float]", "(str)", "int", "Object.float",
     "Object.list[int]", "Object.Foo"}

DefaultLiterals ==
    {PyNone, "", "3.14", "true", "TRUE", "False", "hello", "5", "'a'", "[1, 2]", "None", "1/0"}

\* The lines documentation texts are made of.
MaxLines == 4

DocLines ==
    {"Sum two numbers.", ":param x: the x", "  Args:", "Parameters", "----------",
     "-- parameter"}

DocTexts == {Join(ls, "\n") : ls \in UNION {[1..n -> DocLines] : n \in 1..MaxLines}}

\* The largest number of lines of a documentation text in rEST style.
MaxFragments == 3

\* The lines such a text is made of: parameters, types and prose.
RestLines ==
    {":param x: the x value", ":type x: int", ":param y: the y value", "Sum two numbers.",
     ":type y: (float)", ":param n: 5 items"}

RestTexts == {Join(ls, "\n") : ls \in UNION {[1..n -> RestLines] : n \in 1..MaxFragments}}

\* The largest number of lines of a documentation text in casa style.
MaxCasaLines == 4

\* The lines such a text is made of: prose, the two banners, the first
\* lines of two parameters and a continuation line.
CasaLines ==
    {"Task to do things.", "----- parameter", "----- example", "vis name of input",
     "  more about it", "field id"}

CasaTexts == {Join(ls, "\n") : ls \in UNION {[1..n -> CasaLines] : n \in 1..MaxCasaLines}}

(***************************************************************************)
(* State                                                                   *)
(***************************************************************************)

VARIABLES
    language,   \* the language handed to Child.__init__
    parent,     \* the parent handed to Child.__init__
    child,      \* the Child: casa_mode and member["params"]
    gchild,     \* the grandchild element handed to _process_grandchild
    ggchild,    \* the great-grandchild element the loop is at
    pc,         \* where _process_grandchild is: "call", "loop", "returned", "raised"
    idx,        \* the number of great-grandchildren visited
    member,     \* member["params"] of _process_grandchild
    gg,         \* the GreatGrandChild object
    result,     \* what _process_grandchild returned
    exc,        \* the exception that left _process_grandchild
    tf,         \* typeFix: arguments and outcome
    doc,        \* DetailedDescription: text and format
    ddO,        \* the DetailedDescription object made from doc's text
    section,    \* the grandchildren of the function section Child.__init__ walks
    visited,    \* the number of grandchildren the section walk has processed
    members,    \* members of Child.__init__: the parameters of each Member
    element,    \* the child element handed to Child.__init__
    parameters, \* the signature parameters handed to populateFields
    paramDocs,  \* dd of populateFields: whether it is an object, and its params
    value,      \* value of populateFields
    fields      \* fields of populateFields

vars ==
    <<language, parent, child, gchild, ggchild, pc, idx, member, gg, result, exc, tf, doc, ddO,
      section, visited, members, element, parameters, paramDocs, value, fields>>

sectionVars == <<section, visited, members, element>>

fieldVars == <<parameters, paramDocs, value, fields>>

walkVars == <<language, parent, child, gchild, ggchild, pc, idx, member, gg, result, exc>>

NoResult == [kind |-> "pending", params |-> <<>>]

IdleTf == [value_type |-> "", default_value |-> "", called |-> FALSE, out |-> Return("")]

IdleDoc == [description |-> "", identified |-> FALSE, format |-> ""]

\* No DetailedDescription object has been made.
NoDescription == [made |-> FALSE]

\* A child element: its tag and, for a detaileddescription, the text of
\* child[0][0] (Absent when the element has no children).
ChildElement(tag, text) == [tag |-> tag, text |-> text]

\* A sectiondef of kind func.
FunctionSection == ChildElement("sectiondef", Absent)

\* No child element is being processed.
NoChild == ChildElement("dummy", Absent)

\* A Python object by the name of its type and its text.
PyValue(kind, text) == [kind |-> kind, v |-> text]

\* inspect._empty: no default, no annotation.
Empty == PyValue("empty", "")

NoneValue == PyValue("NoneType", "None")

\* dd of populateFields when it is None.
NoDocs == [exists |-> FALSE, params |-> <<>>]

\* Child.__init__ up to the loop over the grandchildren (lines 816-863) for
\* a function section: casa_mode is inherited from the parent.
Init ==
    /\ language \in Languages
    /\ parent \in Parents
    /\ child = [casa_mode |-> parent.exists /\ parent.casa_mode, params |-> <<>>]
    /\ gchild \in [isFunction : BOOLEAN]
    /\ ggchild = NoElement
    /\ pc = "call"
    /\ idx = 0
    /\ member = <<>>
    /\ gg = NewGreatGrandChild
    /\ result = NoResult
    /\ exc = ""
    /\ tf = IdleTf
    /\ doc = IdleDoc
    /\ ddO = NoDescription
    /\ section = <<>>
    /\ visited = 0
    /\ members = <<>>
    /\ element = FunctionSection
    /\ parameters = <<>>
    /\ paramDocs = NoDocs
    /\ value = NoneValue
    /\ fields = <<>>

(***************************************************************************)
(* _process_grandchild, one step per great-grandchild                      *)
(***************************************************************************)

\* Lines 894-968: the bookkeeping fields, the parent's parameters and the
\* new GreatGrandChild; an element that is no function memberdef returns
\* the empty member at once.
BeginGrandchild ==
    /\ pc = "call"
    /\ IF gchild.isFunction
       THEN /\ member' = BookkeepingFields(language)
            /\ child' = IF parent.exists
                        THEN [child EXCEPT !.params = DictUpdate(child.params, parent.params)]
                        ELSE child
            /\ gg' = NewGreatGrandChild
            /\ pc' = "loop"
            /\ UNCHANGED result
       ELSE /\ result' = [kind |-> "member", params |-> <<>>]
            /\ pc' = "returned"
            /\ UNCHANGED <<member, child, gg>>
    /\ UNCHANGED <<language, parent, gchild, ggchild, idx, exc, tf, doc, ddO, sectionVars, fieldVars>>

\* Lines 969-976: one turn of the loop, node being the great-grandchild
\* the loop is at.
Visit(node) ==
    /\ pc = "loop"
    /\ idx < MaxNodes
    /\ ggchild' = node
    /\ gg' = process_GreatGrandChild(gg, node, child.casa_mode, child.params)
    /\ idx' = idx + 1
    /\ pc' = IF gg'.raised # "" THEN "raised"
             ELSE IF gg'.memberIsNone THEN "returned"
             ELSE "loop"
    /\ exc' = gg'.raised
    /\ result' = IF pc' = "returned" THEN [kind |-> "None", params |-> <<>>] ELSE result
    /\ UNCHANGED <<language, parent, child, gchild, member, tf, doc, ddO, sectionVars, fieldVars>>

\* A function node made of sub-nodes about its parameters and documentation.
VisitGreatGrandChild == \E node \in NodeAlphabet : Visit(node)

\* A function node made of sub-nodes about its declaration.
VisitDeclaration == \E node \in DeclarationAlphabet : Visit(node)

\* Lines 977-997: after the last great-grandchild.
FinishGrandchild ==
    /\ pc = "loop"
    /\ IF gg.func_name = PyNone
          /\ (parent.exists \/ ~DictEq(gg.params, member)) /\ Len(gg.params) # 0
       THEN pc' = "raised" /\ exc' = "TypeError" /\ UNCHANGED <<member, result>>
       ELSE /\ member' = MergeBookkeeping(gg.params, gg.func_name, member, parent.exists)
            /\ result' = [kind |-> "member", params |-> member']
            /\ pc' = "returned"
            /\ UNCHANGED exc
    /\ UNCHANGED <<language, parent, child, gchild, ggchild, idx, gg, tf, doc, ddO, sectionVars, fieldVars>>

Next ==
    \/ BeginGrandchild
    \/ VisitGreatGrandChild
    \/ FinishGrandchild

Spec == Init /\ [][Next]_vars

NextDeclaration ==
    \/ BeginGrandchild
    \/ VisitDeclaration
    \/ FinishGrandchild

SpecDeclaration == Init /\ [][NextDeclaration]_vars

\* A function node made of sub-nodes about the types of its parameters.
VisitSignature == \E node \in SignatureAlphabet : Visit(node)

NextSignature ==
    \/ BeginGrandchild
    \/ VisitSignature
    \/ FinishGrandchild

SpecSignature == Init /\ [][NextSignature]_vars

\* A function node made of sub-nodes about its title and description.
VisitTitle == \E node \in TitleAlphabet : Visit(node)

NextTitle ==
    \/ BeginGrandchild
    \/ VisitTitle
    \/ FinishGrandchild

SpecTitle == Init /\ [][NextTitle]_vars

(***************************************************************************)
(* Child.__init__ for a function section, one step per grandchild          *)
(***************************************************************************)

\* Lines 816-863 for a sectiondef of kind func: the Child before the loop
\* over the grandchildren.
InitSection ==
    /\ language \in Languages
    /\ parent \in Parents
    /\ child = [casa_mode |-> parent.exists /\ parent.casa_mode, params |-> <<>>]
    /\ gchild = [isFunction |-> TRUE]
    /\ ggchild = NoElement
    /\ pc = "section"
    /\ idx = 0
    /\ member = <<>>
    /\ gg = NewGreatGrandChild
    /\ result = NoResult
    /\ exc = ""
    /\ tf = IdleTf
    /\ doc = IdleDoc
    /\ ddO = NoDescription
    /\ section \in Sections
    /\ visited = 0
    /\ members = <<>>
    /\ element = FunctionSection
    /\ parameters = <<>>
    /\ paramDocs = NoDocs
    /\ value = NoneValue
    /\ fields = <<>>

\* Line 966: self.member["params"] once _process_grandchild has taken the
\* parameters of the parent.
WithParentParams(params) == IF parent.exists THEN DictUpdate(params, parent.params) ELSE params

\* Lines 868-874: gmember is dropped when it is None, and when it equals
\* self.member, which has no "description" key; otherwise its parameters go
\* to self.member and it is appended to members.
KeepMember(out, selfParams) ==
    /\ out.kind = "member"
    /\ parent.exists \/ ~DictEq(out.params, selfParams)

\* Lines 864-874: one turn of the loop over the grandchildren, out being
\* what _process_grandchild gives; an exception leaves Child.__init__.
AddGrandchild(out, selfParams) ==
    /\ result' = [kind |-> out.kind, params |-> out.params]
    /\ exc' = out.exc
    /\ pc' = IF out.kind = "raised" THEN "raised" ELSE "section"
    /\ child' = [child EXCEPT !.params = IF KeepMember(out, selfParams)
                                         THEN DictUpdate(selfParams, out.params)
                                         ELSE selfParams]
    /\ members' = IF KeepMember(out, selfParams) THEN Append(members, out.params) ELSE members

ProcessGrandchild ==
    /\ pc = "section"
    /\ visited < Len(section)
    /\ visited' = visited + 1
    /\ AddGrandchild(process_grandchild(section[visited + 1], language, parent.exists,
                                        child.casa_mode, WithParentParams(child.params)),
                     WithParentParams(child.params))
    /\ UNCHANGED <<language, parent, gchild, ggchild, idx, member, gg, tf, doc, ddO, section,
                   element, fieldVars>>

\* Lines 875-876: self.members = members.
FinishSection ==
    /\ pc = "section"
    /\ visited = Len(section)
    /\ pc' = "done"
    /\ UNCHANGED <<language, parent, child, gchild, ggchild, idx, member, gg, result, exc, tf, doc,
                   ddO, sectionVars, fieldVars>>

NextSection ==
    \/ ProcessGrandchild
    \/ FinishSection

SpecSection == InitSection /\ [][NextSection]_vars

(***************************************************************************)
(* typeFix on its own                                                      *)
(***************************************************************************)

InitTypeFix ==
    /\ language = "UNKNOWN"
    /\ parent \in {q \in Parents : ~q.exists}
    /\ child = [casa_mode |-> FALSE, params |-> <<>>]
    /\ gchild = [isFunction |-> FALSE]
    /\ ggchild = NoElement
    /\ pc = "idle"
    /\ idx = 0
    /\ member = <<>>
    /\ gg = NewGreatGrandChild
    /\ result = NoResult
    /\ exc = ""
    /\ \E t \in TypeTokens, d \in DefaultLiterals :
           tf = [value_type |-> t, default_value |-> d, called |-> FALSE, out |-> Return("")]
    /\ doc = IdleDoc
    /\ ddO = NoDescription
    /\ section = <<>>
    /\ visited = 0
    /\ members = <<>>
    /\ element = NoChild
    /\ parameters = <<>>
    /\ paramDocs = NoDocs
    /\ value = NoneValue
    /\ fields = <<>>

CallTypeFix ==
    /\ ~tf.called
    /\ tf' = [tf EXCEPT !.called = TRUE, !.out = typeFix(tf.value_type, tf.default_value)]
    /\ UNCHANGED <<walkVars, doc, ddO, sectionVars, fieldVars>>

SpecTypeFix == InitTypeFix /\ [][CallTypeFix]_vars

(***************************************************************************)
(* DetailedDescription._identify_format on its own                         *)
(***************************************************************************)

InitFormat ==
    /\ language = "UNKNOWN"
    /\ parent \in {q \in Parents : ~q.exists}
    /\ child = [casa_mode |-> FALSE, params |-> <<>>]
    /\ gchild = [isFunction |-> FALSE]
    /\ ggchild = NoElement
    /\ pc = "idle"
    /\ idx = 0
    /\ member = <<>>
    /\ gg = NewGreatGrandChild
    /\ result = NoResult
    /\ exc = ""
    /\ tf = IdleTf
    /\ \E t \in DocTexts : doc = [description |-> t, identified |-> FALSE, format |-> ""]
    /\ ddO = NoDescription
    /\ section = <<>>
    /\ visited = 0
    /\ members = <<>>
    /\ element = NoChild
    /\ parameters = <<>>
    /\ paramDocs = NoDocs
    /\ value = NoneValue
    /\ fields = <<>>

IdentifyFormat ==
    /\ ~doc.identified
    /\ doc' = [doc EXCEPT !.identified = TRUE, !.format = identify_format(doc.description)]
    /\ UNCHANGED <<walkVars, tf, ddO, sectionVars, fieldVars>>

SpecFormat == InitFormat /\ [][IdentifyFormat]_vars

(***************************************************************************)
(* DetailedDescription(descr) on its own                                   *)
(***************************************************************************)

InitDescription ==
    /\ language = "UNKNOWN"
    /\ parent \in {q \in Parents : ~q.exists}
    /\ child = [casa_mode |-> FALSE, params |-> <<>>]
    /\ gchild = [isFunction |-> FALSE]
    /\ ggchild = NoElement
    /\ pc = "idle"
    /\ idx = 0
    /\ member = <<>>
    /\ gg = NewGreatGrandChild
    /\ result = NoResult
    /\ exc = ""
    /\ tf = IdleTf
    /\ \E t \in RestTexts : doc = [description |-> t, identified |-> FALSE, format |-> ""]
    /\ ddO = NoDescription
    /\ section = <<>>
    /\ visited = 0
    /\ members = <<>>
    /\ element = NoChild
    /\ parameters = <<>>
    /\ paramDocs = NoDocs
    /\ value = NoneValue
    /\ fields = <<>>

\* Lines 261-271: the constructor, from the format to the parameter map.
MakeDescription ==
    /\ ~ddO.made
    /\ ddO' = [made |-> TRUE, obj |-> DetailedDescription(doc.description)]
    /\ doc' = [doc EXCEPT !.identified = TRUE, !.format = ddO'.obj.format]
    /\ UNCHANGED <<walkVars, tf, sectionVars, fieldVars>>

SpecDescription == InitDescription /\ [][MakeDescription]_vars

\* The constructor on texts in casa style.
InitCasa ==
    /\ language = "UNKNOWN"
    /\ parent \in {q \in Parents : ~q.exists}
    /\ child = [casa_mode |-> FALSE, params |-> <<>>]
    /\ gchild = [isFunction |-> FALSE]
    /\ ggchild = NoElement
    /\ pc = "idle"
    /\ idx = 0
    /\ member = <<>>
    /\ gg = NewGreatGrandChild
    /\ result = NoResult
    /\ exc = ""
    /\ tf = IdleTf
    /\ \E t \in CasaTexts : doc = [description |-> t, identified |-> FALSE, format |-> ""]
    /\ ddO = NoDescription
    /\ section = <<>>
    /\ visited = 0
    /\ members = <<>>
    /\ element = NoChild
    /\ parameters = <<>>
    /\ paramDocs = NoDocs
    /\ value = NoneValue
    /\ fields = <<>>

SpecCasa == InitCasa /\ [][MakeDescription]_vars

(***************************************************************************)
(* Child.__init__ from its first line, for any child element               *)
(***************************************************************************)

\* The largest number of function nodes of a section with methods.
MaxMethods == 2

\* A documentation text in casa style: a banner and one parameter.
CasaTask == "Task.\n-- parameter\nvis name of input"

\* Function nodes with a receiver: an instance method, a class method, a
\* function without receiver, and a method documented in casa style.
MethodNodes ==
    { <<DefinitionNode("def pkg.Cls.run"), ParamNode(Absent, Absent, "self", Absent),
        ParamNode(Absent, Absent, "x", Absent)>>,
      <<DefinitionNode("def pkg.Cls.make"), ParamNode(Absent, Absent, "cls", Absent)>>,
      <<DefinitionNode("def pkg.mod.foo"), ParamNode("float", Absent, "x", "5")>>,
      <<DefinitionNode("def pkg.Cls.go"), DescrNode(CasaTask),
        ParamNode(Absent, Absent, "self", Absent)>> }

MethodSections == UNION {[1..n -> MethodNodes] : n \in 1..MaxMethods}

\* The texts of a detaileddescription child: none, casa with the banner
\* after the first line, with and without an example banner, casa with the
\* banner on the first line, plain prose and rEST.
ChildTexts ==
    { PyNone, CasaTask, "Task.\n----- parameter\nvis name\n  of input\n----- example\nrun()",
      "-- parameter\nvis name of input", "Sum two numbers.", "Sum.\n:param x: the x" }

\* The child elements handed to Child.__init__.
ChildElements ==
    {ChildElement("detaileddescription", t) : t \in ChildTexts \cup {Absent}}
        \cup {FunctionSection}

\* Lines 816-821: the attributes before the child element is looked at.
InitChild ==
    /\ language \in Languages
    /\ parent \in Parents
    /\ element \in ChildElements
    /\ section \in IF element = FunctionSection THEN MethodSections ELSE {<<>>}
    /\ child = [casa_mode |-> FALSE, params |-> <<>>]
    /\ gchild = [isFunction |-> TRUE]
    /\ ggchild = NoElement
    /\ pc = "new"
    /\ idx = 0
    /\ member = <<>>
    /\ gg = NewGreatGrandChild
    /\ result = NoResult
    /\ exc = ""
    /\ tf = IdleTf
    /\ doc = IdleDoc
    /\ ddO = NoDescription
    /\ visited = 0
    /\ members = <<>>
    /\ parameters = <<>>
    /\ paramDocs = NoDocs
    /\ value = NoneValue
    /\ fields = <<>>

\* InheritedCasaMode that takes nothing from the parent.
InheritedCasaMode_Never(p) == FALSE

\* Lines 831-832: casa_mode as the parent gives it.
InheritedCasaMode(p) == p.exists /\ p.casa_mode

\* Lines 833-836: whether the element is a detaileddescription with children.
HasDescription(e) == e.tag = "detaileddescription" /\ e.text # Absent

\* Lines 846-852: casa_mode and member["params"] once the description of the
\* element has been classified; inherited is casa_mode before.
DescribedChild(inherited, obj) ==
    IF obj.format = "casa" THEN [casa_mode |-> TRUE, params |-> obj.params]
    ELSE [casa_mode |-> inherited, params |-> <<>>]

\* Lines 831-863: casa_mode from the parent and from the description of the
\* element; a function section goes on to the loop over its grandchildren,
\* any other element has no members.
ConstructChild ==
    /\ pc = "new"
    /\ IF HasDescription(element)
       THEN /\ ddO' = [made |-> TRUE, obj |-> DetailedDescription(element.text)]
            /\ IF ddO'.obj.raised # ""
               THEN pc' = "raised" /\ exc' = ddO'.obj.raised /\ UNCHANGED child
               ELSE /\ child' = DescribedChild(InheritedCasaMode(parent), ddO'.obj)
                    /\ pc' = "done"
                    /\ UNCHANGED exc
       ELSE /\ child' = [child EXCEPT !.casa_mode = InheritedCasaMode(parent)]
            /\ pc' = IF element = FunctionSection THEN "section" ELSE "done"
            /\ UNCHANGED <<ddO, exc>>
    /\ UNCHANGED <<language, parent, gchild, ggchild, idx, member, gg, result, tf, doc,
                   sectionVars, fieldVars>>

NextChild ==
    \/ ConstructChild
    \/ ProcessGrandchild
    \/ FinishSection

SpecChild == InitChild /\ [][NextChild]_vars

(***************************************************************************)
(* Child.__init__ for a section with grandchildren of any kind             *)
(***************************************************************************)

\* The largest number of grandchildren of such a section.
MaxMembers == 3

\* A grandchild element: whether it is a memberdef of kind function, and
\* its sub-nodes.
Grandchild(isFunction, nodes) == [isFunction |-> isFunction, nodes |-> nodes]

\* The grandchildren a section is made of: a function with a name only, a
\* function with a parameter, a private function and a variable.
Grandchildren ==
    { Grandchild(TRUE, <<NameNode("foo")>>),
      Grandchild(TRUE, <<DefinitionNode("def pkg.mod.foo"), ParamNode("float", Absent, "x", "5")>>),
      Grandchild(TRUE, <<DefinitionNode("def pkg.mod._bar")>>),
      Grandchild(FALSE, <<NameNode("count")>>) }

MemberSections == UNION {[1..n -> Grandchildren] : n \in 1..MaxMembers}

\* Lines 816-863 for a sectiondef of kind func, as InitSection.
InitMembers ==
    /\ language \in Languages
    /\ parent \in Parents
    /\ child = [casa_mode |-> parent.exists /\ parent.casa_mode, params |-> <<>>]
    /\ gchild = [isFunction |-> FALSE]
    /\ ggchild = NoElement
    /\ pc = "section"
    /\ idx = 0
    /\ member = <<>>
    /\ gg = NewGreatGrandChild
    /\ result = NoResult
    /\ exc = ""
    /\ tf = IdleTf
    /\ doc = IdleDoc
    /\ ddO = NoDescription
    /\ section \in MemberSections
    /\ visited = 0
    /\ members = <<>>
    /\ element = FunctionSection
    /\ parameters = <<>>
    /\ paramDocs = NoDocs
    /\ value = NoneValue
    /\ fields = <<>>

\* Lines 864-874 for a grandchild that is no function memberdef:
\* _process_grandchild gives the member with empty params (lines 894, 997),
\* which is dropped only when it equals self.member.
AddOther(selfParams) ==
    /\ result' = [kind |-> "member", params |-> <<>>]
    /\ members' = IF Len(selfParams) # 0 THEN Append(members, <<>>) ELSE members
    /\ UNCHANGED <<child, exc, pc>>

\* Lines 864-874: one turn of the loop for a grandchild of either kind.
ProcessMember ==
    /\ pc = "section"
    /\ visited < Len(section)
    /\ visited' = visited + 1
    /\ gchild' = [isFunction |-> section[visited + 1].isFunction]
    /\ IF section[visited + 1].isFunction
       THEN AddGrandchild(process_grandchild(section[visited + 1].nodes, language, parent.exists,
                                             child.casa_mode, WithParentParams(child.params)),
                          WithParentParams(child.params))
       ELSE AddOther(child.params)
    /\ UNCHANGED <<language, parent, ggchild, idx, member, gg, tf, doc, ddO, section, element,
                   fieldVars>>

NextMembers ==
    \/ ProcessMember
    \/ FinishSection

SpecMembers == InitMembers /\ [][NextMembers]_vars

(***************************************************************************)
(* populateFields (support_functions.py), one step per parameter           *)
(***************************************************************************)

\* A parameter of a signature: inspect.Parameter.
Parameter(name, default, annotation, kind) ==
    [name |-> name, default |-> default, annotation |-> annotation, kind |-> kind]

\* The largest number of parameters of a signature.
MaxParameters == 3

\* Default, annotation and kind of the parameters: no default, a string, an
\* integer, a list, None, and an array, whose comparison with
\* inspect._empty has no truth value (ValueError).
Signatures ==
    { Parameter("", Empty, Empty, "POSITIONAL_OR_KEYWORD"),
      Parameter("", PyValue("str", "a"), PyValue("type", "str"), "POSITIONAL_OR_KEYWORD"),
      Parameter("", PyValue("int", "5"), PyValue("str", "int"), "POSITIONAL_OR_KEYWORD"),
      Parameter("", PyValue("list", "[1, 2]"), Empty, "POSITIONAL_ONLY"),
      Parameter("", NoneValue, Empty, "KEYWORD_ONLY"),
      Parameter("", PyValue("ndarray", "array([1, 2])"), Empty, "POSITIONAL_OR_KEYWORD") }

ParameterNames == <<"p1", "p2", "p3", "p4">>

\* The signatures: parameters.items() has the names in order, each once.
ParameterLists ==
    UNION {{[i \in 1..n |-> [s[i] EXCEPT !.name = ParameterNames[i]]] : s \in [1..n -> Signatures]}
              : n \in 1..MaxParameters}

\* dd: none, or a DetailedDescription that documents p1.
DocumentedParams ==
    {NoDocs, [exists |-> TRUE, params |-> <<[k |-> "p1", v |-> [desc |-> "the first", type |-> PyNone]]>>]}

\* Lines 279-284: the call, with fields empty and value None.
InitFields ==
    /\ language = "UNKNOWN"
    /\ parent \in {q \in Parents : ~q.exists}
    /\ child = [casa_mode |-> FALSE, params |-> <<>>]
    /\ gchild = [isFunction |-> FALSE]
    /\ ggchild = NoElement
    /\ pc = "populate"
    /\ idx = 0
    /\ member = <<>>
    /\ gg = NewGreatGrandChild
    /\ result = NoResult
    /\ exc = ""
    /\ tf = IdleTf
    /\ doc = IdleDoc
    /\ ddO = NoDescription
    /\ section = <<>>
    /\ visited = 0
    /\ members = <<>>
    /\ element = NoChild
    /\ parameters \in ParameterLists
    /\ paramDocs \in DocumentedParams
    /\ value = NoneValue
    /\ fields = <<>>

\* initializeField(name): the field with its dummy values.
initializeField(name) ==
    [name |-> name, value |-> PyValue("str", "dummy"), defaultValue |-> PyValue("str", "dummy"),
     description |-> "dummy", type |-> "String", parameterType |-> "ComponentParameter",
     usage |-> "NoPort", readonly |-> FALSE, options |-> PyNone, precious |-> FALSE,
     positional |-> FALSE]

\* Lines 289-300: value after the try statement; it is assigned for a list,
\* a tuple or a string, and in the handler of ValueError, and left as it
\* was otherwise.
NextValue(old, default) ==
    IF default.kind \in {"list", "tuple"} THEN default
    ELSE IF default.kind = "ndarray" THEN PyValue("str", "numpy.ndarray")
    ELSE IF default.kind = "str" THEN default
    ELSE old

\* Lines 302-304
FieldDescription(docs, p) ==
    IF docs.exists /\ DictHas(docs.params, p) THEN DictGet(docs.params, p).desc ELSE ""

\* Lines 305-313
FieldType(annotation) ==
    IF annotation.kind = "str" THEN annotation.v
    ELSE IF annotation.kind = "type" THEN annotation.v
    ELSE "Object"

\* Line 314: the attribute fieldType, which initializeField does not set.
WithFieldType(field) ==
    [a \in DOMAIN field \cup {"fieldType"} |->
        IF a = "fieldType" THEN "ApplicationArgument" ELSE field[a]]

\* Lines 288-318: the field of the parameter v, val being value after the
\* try statement.
PopulatedField(v, val, docs) ==
    WithFieldType([initializeField(v.name) EXCEPT
                      !.value = val, !.defaultValue = val,
                      !.description = FieldDescription(docs, v.name),
                      !.type = FieldType(v.annotation),
                      !.options = PyNone,
                      !.positional = (v.kind = "POSITIONAL_ONLY")])

\* Lines 286-319: one turn of the loop over parameters.items().
PopulateField ==
    /\ pc = "populate"
    /\ Len(fields) < Len(parameters)
    /\ value' = NextValue(value, parameters[Len(fields) + 1].default)
    /\ fields' = DictPut(fields, parameters[Len(fields) + 1].name,
                         PopulatedField(parameters[Len(fields) + 1], value', paramDocs))
    /\ UNCHANGED <<walkVars, tf, doc, ddO, sectionVars, parameters, paramDocs>>

\* Lines 321-322: return fields.
ReturnFields ==
    /\ pc = "populate"
    /\ Len(fields) = Len(parameters)
    /\ pc' = "returned"
    /\ UNCHANGED <<language, parent, child, gchild, ggchild, idx, member, gg, result, exc, tf, doc,
                   ddO, sectionVars, fieldVars>>

NextFields ==
    \/ PopulateField
    \/ ReturnFields

SpecFields == InitFields /\ [][NextFields]_vars

(***************************************************************************)
(* Properties                                                              *)
(***************************************************************************)

\* The i-th "/"-separated field of a parameter record: 1 default value,
\* 2 type, 3 parameter kind, 4 port, 5 access, 6 options.
Field(v, i) == LET f == Split(v, "/") IN IF i <= Len(f) THEN f[i] ELSE ""

\* The description of a parameter record: what follows its eighth "/".
RecordDescription(v) ==
    LET f == Split(v, "/") IN IF Len(f) < 9 THEN "" ELSE Join(SubSeq(f, 9, Len(f)), "/")

\* The element just visited is a definition whose string has a "." and
\* whose name, after the last ".", is private and no constructor/call marker.
PrivateDefinition(node) ==
    /\ node.tag = "definition"
    /\ node.text \notin {Absent, PyNone}
    /\ Contains(node.text, ".")
    /\ StartsWith(AfterLast(node.text, "."), "_")
    /\ AfterLast(node.text, ".") \notin {"__init__", "__call__"}

\* C1: once the walk has visited a definition whose resolved name starts
\* with an underscore and is neither __init__ nor __call__, gg.member is
\* None and _process_grandchild has returned None, whatever was visited
\* before.
C1_PrivateNameFiltered ==
    PrivateDefinition(ggchild) =>
        gg.memberIsNone /\ pc = "returned" /\ result.kind = "None"

C1_Witness ==
    /\ PrivateDefinition(ggchild)
    /\ result.kind = "None"
    /\ idx > 1
    /\ Len(gg.params) > 0

ReceiverRecord(v) ==
    /\ Field(v, 4) \in {"InputPort", "OutputPort"}
    /\ Field(v, 5) = "readonly"

ReceiverConvention(params) ==
    /\ ~DictHas(params, "cls")
    /\ DictHas(params, "self") => ReceiverRecord(DictGet(params, "self"))
    /\ child.casa_mode => ~DictHas(params, "self")

\* C2: neither the parameters collected during the walk nor the emitted
\* ones hold a "self" entry with access readwrite: a receiver (self, or
\* cls renamed to self) is readonly with port InputPort or OutputPort, and
\* in CASA mode there is no such entry at all.
C2_ReceiverConvention == ReceiverConvention(gg.params) /\ ReceiverConvention(result.params)

C2_Witness ==
    /\ result.kind = "member"
    /\ gg.is_classmethod
    /\ gg.is_member
    /\ DictHas(result.params, "self")
    /\ DictHas(result.params, "func_name")

C2_WitnessCasa ==
    /\ result.kind = "member"
    /\ child.casa_mode
    /\ gg.is_member
    /\ DictHas(result.params, "func_name")

BookkeepingNames ==
    {"input_parser", "output_parser", "execution_time", "num_cpus", "group_start",
     "func_name", "category", "libpath", "dropclass"}

\* C3: when a declared parameter has the name of a bookkeeping field, the
\* record emitted under that name is the declared parameter's.
C3_UserParameterWins ==
    result.kind = "member" =>
        \A name \in BookkeepingNames :
            DictHas(gg.params, name) =>
                DictGet(result.params, name) = DictGet(gg.params, name)

\* The element just visited is a param with the given name that was
\* recorded.
JustDeclared(node) ==
    /\ node.tag = "param"
    /\ node.name \notin {Absent, PyNone}
    /\ gg.raised = ""
    /\ DictHas(gg.params, node.name)

\* C4: a param with a declared type T and a default D is recorded with
\* default D and with the type that T alone normalises to.
C4_DeclaredTypeWins ==
    (JustDeclared(ggchild) /\ ggchild.type # Absent /\ ggchild.defval \notin {Absent, PyNone}) =>
        /\ Field(DictGet(gg.params, ggchild.name), 1) = ggchild.defval
        /\ Field(DictGet(gg.params, ggchild.name), 2) = typeFix(DeclaredType(ggchild), "").value

\* The type the documentation text gives the parameter, Absent if none.
DocumentedType(text, name) ==
    LET d == DetailedDescription(text)
    IN  IF d.raised = "" /\ d.format \in {"rEST", "Google", "Numpy"} /\ DictHas(d.params, name)
           /\ DictGet(d.params, name).type # PyNone
        THEN DictGet(d.params, name).type
        ELSE Absent

\* The step visits a detaileddescription right after a param, and the
\* documentation gives that parameter a type.
DocumentsLastParam ==
    /\ ggchild.tag = "param"
    /\ ggchild.name \notin {Absent, PyNone, "self", "cls"}
    /\ DictHas(gg.params, ggchild.name)
    /\ ggchild'.tag = "detaileddescription"
    /\ ggchild'.text \notin {Absent, PyNone}
    /\ DocumentedType(ggchild'.text, ggchild.name) # Absent
    /\ gg'.raised = ""

\* C5: documentation visited right after a param gives the record its type
\* when the param declares none, and leaves the type alone when it does.
C5_DocumentationSuppliesType ==
    [][DocumentsLastParam =>
          Field(DictGet(gg'.params, ggchild.name), 2) =
              IF ggchild.type = Absent
              THEN DocumentedType(ggchild'.text, ggchild.name)
              ELSE Field(DictGet(gg.params, ggchild.name), 2)]_vars

\* C6: after the documentation block DocRest, which documents x in the
\* fragments "first" and "second", the description of a declared x holds
\* both fragments, "first" before "second".
C6_FragmentsAccumulate ==
    (ggchild = DescrNode(DocRest) /\ gg.raised = "" /\ DictHas(gg.params, "x")) =>
        LET d == RecordDescription(DictGet(gg.params, "x"))
        IN  /\ Contains(d, "first")
            /\ FindFrom(d, "second", Find(d, "first")) > 0

\* C7: once a param x and a documentation block that describes x have both
\* been visited, in whichever order, the record of x is the one the
\* signature made (default, type, ApplicationArgument) and its description
\* holds the documented text.
C7_OrderIndependent ==
    (gg.raised = "" /\ DictHas(gg.params, "x") /\ DictHas(gg.params, "description")) =>
        /\ Field(DictGet(gg.params, "x"), 3) = "ApplicationArgument"
        /\ Contains(RecordDescription(DictGet(gg.params, "x")), "second")

CanonicalType(v) ==
    \/ v \in {"Boolean", "Integer", "Float", "String", "Json", "Select"}
    \/ StartsWith(v, "Object.") /\ Len(v) > Len("Object.")

\* C8: typeFix returns a canonical type for every pair of arguments and
\* never raises.
C8_TypeFixTotal ==
    tf.called => tf.out.raised = "" /\ CanonicalType(tf.out.value)

\* C9: the results of typeFix on the canonical tokens.
C9_CanonicalTokens ==
    tf.called =>
        /\ (tf.value_type = "(int)" /\ tf.default_value = "") => tf.out = Return("Integer")
        /\ (tf.value_type = "(bool)" /\ tf.default_value = "") => tf.out = Return("Boolean")
        /\ (tf.value_type = PyNone /\ tf.default_value = "3.14") => tf.out = Return("Float")
        /\ (tf.value_type = PyNone /\ Lower(tf.default_value) = "true") => tf.out = Return("Boolean")
        /\ (tf.value_type = PyNone /\ tf.default_value = "hello") => tf.out = Return("String")

\* The fixed order of the dialects.
DialectOrder == <<"rEST", "Google", "Numpy", "casa">>

\* The places in DialectOrder of the dialects whose pattern matches the
\* line-stripped text.
MatchingDialects(text) ==
    {k \in 1..Len(DialectOrder) : FormatMatches(DialectOrder[k], StrippedText(text))}

\* C10: the format chosen is the last dialect, in the fixed order, whose
\* pattern matches the line-stripped text, and it is empty exactly when none
\* matches.
C10_LastMatchWins ==
    doc.identified =>
        doc.format = IF MatchingDialects(doc.description) = {} THEN ""
                     ELSE DialectOrder[SetMax(MatchingDialects(doc.description))]

C10_Witness ==
    /\ doc.identified
    /\ Cardinality(MatchingDialects(doc.description)) >= 3
    /\ doc.format = "casa"

\* The lines of a text, each without the white space around it.
MarkerLines(text) == StripEach(Split(text, "\n"))

\* A line of dashes that is followed by " parameter".
IsBanner(line) ==
    \E n \in 2..20 :
        /\ AllIn(Slice(line, 1, n), {"-"})
        /\ Slice(line, n + 1, n + 10) = " parameter"

\* The dialect whose marker stands in the lines, on whichever line.
HasMarker(k, lines) ==
    CASE k = "rEST" ->
             \E i \in 1..Len(lines) :
                 StartsWith(lines[i], ":param ") /\ Find(From(lines[i], 8), ":") > 0
      [] k = "Google" -> \E i \in 1..Len(lines) : StartsWith(lines[i], "Args:")
      [] k = "Numpy" ->
             \E i \in 1..(Len(lines) - 1) :
                 lines[i] = "Parameters" /\ StartsWith(lines[i + 1], "----------")
      [] k = "casa" -> \E i \in 1..Len(lines) : IsBanner(lines[i])

\* The places in DialectOrder of the dialects whose marker the text holds.
MarkedDialects(text) ==
    {k \in 1..Len(DialectOrder) : HasMarker(DialectOrder[k], MarkerLines(text))}

\* C11: a text is classified by the marker it holds, wherever the marker
\* stands and also on the first line: the dialect chosen is the last one, in
\* the fixed order, whose marker is in the text, and the text is unknown when
\* it holds none.
C11_ClassifiedByMarker ==
    doc.identified =>
        doc.format = IF MarkedDialects(doc.description) = {} THEN ""
                     ELSE DialectOrder[SetMax(MarkedDialects(doc.description))]

\* A definition string that resolves no identity: no text, an empty text, or
\* a last word without a path separator.
Malformed(text) ==
    \/ text = PyNone
    \/ Strip(text) = ""
    \/ ~Contains(Last(Words(text)), ".")

\* C12: the visit of a malformed definition sub-node does not raise; it ends
\* the walk with an absent Member (_process_grandchild returns None).
C12_MalformedDeclarationSkipped ==
    (ggchild.tag = "definition" /\ Malformed(ggchild.text)) =>
        /\ exc = ""
        /\ pc = "returned"
        /\ result.kind = "None"

\* What _process_grandchild gives for a function node that a Child new from
\* the same parent processes first.
Standalone(nodes) ==
    process_grandchild(nodes, language, parent.exists, parent.exists /\ parent.casa_mode,
                       IF parent.exists THEN parent.params ELSE <<>>)

\* The function nodes of a section that yield a Member on their own: those
\* that are neither filtered out nor fail.
Yielding(sec) == SelectSeq(sec, LAMBDA nodes : Standalone(nodes).kind = "member")

\* The func_name field of a Member, "" when it has none.
FuncNameOf(params) == IF DictHas(params, "func_name") THEN DictGet(params, "func_name") ELSE ""

\* C13: no function node stops the walk of its section (no exception leaves
\* Child.__init__), and when the walk is done every function node that is
\* neither filtered out nor failing has its Member in members, in document
\* order.
C13_LocalSkipGlobalContinue ==
    /\ Len(section) > 0 => pc # "raised"
    /\ pc = "done" =>
           /\ Len(members) = Len(Yielding(section))
           /\ \A k \in 1..Len(members) :
                  k <= Len(Yielding(section)) =>
                      FuncNameOf(members[k]) = FuncNameOf(Standalone(Yielding(section)[k]).params)

\* C16: the Member a function node adds to members is the one the node
\* yields on its own, whichever siblings were processed before it.
C16_NoCrossMemberState ==
    [][Len(members') = Len(members) + 1 =>
           members'[Len(members')] = Standalone(section[visited + 1]).params]_vars

\* The keys of a Member that are neither signature nor bookkeeping
\* parameters: the title and the description of the function.
TitleNames == {"text", "description"}

\* Every bookkeeping parameter stands after every signature parameter.
BookkeepingLast(params) ==
    \A i, j \in 1..Len(params) :
        (params[i].k \in BookkeepingNames /\ params[j].k \notin BookkeepingNames \cup TitleNames)
            => j < i

\* A name that was not among the parameters is the last of them once it is.
AppendedLast(before, after, name) ==
    (~DictHas(before, name) /\ DictHas(after, name)) => after[Len(after)].k = name

\* C14: a param sub-node with a new name is recorded after the parameters
\* recorded so far, and in the Member that is returned every bookkeeping
\* parameter stands after every signature parameter.
C14_ParameterOrder ==
    [][/\ (ggchild'.tag = "param" /\ ggchild'.name \notin {Absent, PyNone} /\ gg'.raised = "")
              => AppendedLast(gg.params, gg'.params,
                              IF ggchild'.name = "cls" THEN "self" ELSE ggchild'.name)
       /\ (result'.kind = "member" /\ gchild.isFunction) => BookkeepingLast(result'.params)]_vars

\* A parser-selection field: a Select with default pickle and the fixed
\* options.
ParserField(v) ==
    /\ Field(v, 1) = "pickle"
    /\ Field(v, 2) = "Select"
    /\ Field(v, 6) = "pickle,eval,npy,path,dataurl"

\* C15: the Member returned for a function memberdef holds execution_time,
\* num_cpus, group_start, a readonly func_name and the two parser fields,
\* also when the function node has no sub-node that adds a parameter.
C15_BookkeepingComplete ==
    (pc = "returned" /\ result.kind = "member" /\ gchild.isFunction) =>
        /\ \A name \in {"execution_time", "num_cpus", "group_start", "func_name",
                        "input_parser", "output_parser"} : DictHas(result.params, name)
        /\ Field(DictGet(result.params, "func_name"), 5) = "readonly"
        /\ ParserField(DictGet(result.params, "input_parser"))
        /\ ParserField(DictGet(result.params, "output_parser"))

\* The text of the reST extraction example.
RestExample == ":param x: the x value\n:type x: int\n:param y: the y value"

\* The entry of a parameter map under the name, with the description and type.
HasEntry(params, name, desc, type) ==
    /\ DictHas(params, name)
    /\ DictGet(params, name) = [desc |-> desc, type |-> type]

\* C17: the example text gives exactly x -> (the x value, Integer) and
\* y -> (the y value, String); and every parameter of a text in rEST style
\* has a canonical type, the explicit one or the one inferred from its
\* description.
C17_RestExtraction ==
    (ddO.made /\ ddO.obj.raised = "" /\ ddO.obj.format = "rEST") =>
        /\ doc.description = RestExample =>
               /\ DictKeys(ddO.obj.params) = {"x", "y"}
               /\ HasEntry(ddO.obj.params, "x", "the x value", "Integer")
               /\ HasEntry(ddO.obj.params, "y", "the y value", "String")
        /\ \A i \in 1..Len(ddO.obj.params) :
               /\ ddO.obj.params[i].v.type # PyNone
               /\ CanonicalType(ddO.obj.params[i].v.type)

\* The element just visited is a param named cls.
ClsVisited == ggchild.tag = "param" /\ ggchild.name = "cls"

\* The record of a class receiver.
ClsRecord(v) ==
    /\ Field(v, 2) = "Object.self"
    /\ Field(v, 4) = "OutputPort"
    /\ Field(v, 5) = "readonly"
    /\ RecordDescription(v) = "Object reference"

\* C18: a param named cls sets the classmethod flag and is emitted under the
\* name self with port OutputPort, type Object.self, access readonly and the
\* description "Object reference", whatever its declared type and default
\* and whatever the function.
C18_ClsAlwaysEmitted ==
    ClsVisited =>
        /\ gg.raised = ""
        /\ gg.is_classmethod
        /\ ~DictHas(gg.params, "cls")
        /\ DictHas(gg.params, "self")
        /\ ClsRecord(DictGet(gg.params, "self"))

\* C19: a param named self sets the instance-method flag, and in the Member
\* that is returned the record of self has the port OutputPort when the
\* function is a constructor/call entry point and InputPort otherwise, in
\* whichever order the name, definition and param sub-nodes were visited.
C19_SelfPort ==
    /\ (ggchild.tag = "param" /\ ggchild.name = "self" /\ gg.raised = "") => gg.is_member
    /\ (/\ pc = "returned"
        /\ result.kind = "member"
        /\ gg.is_member
        /\ ~gg.is_classmethod
        /\ DictHas(result.params, "self")) =>
           /\ Field(DictGet(result.params, "self"), 4) =
                  IF gg.is_init THEN "OutputPort" ELSE "InputPort"
           /\ Field(DictGet(result.params, "self"), 5) = "readonly"

\* The segments of the qualified path of a definition string: what stands
\* before the last "." of its last word, split at the dots.
PathSegments(text) == Split(RSplit1(Last(Words(text)), ".")[1], ".")

\* The element just visited is a definition whose path has a segment that
\* begins with an underscore.
PrivatePathDefinition(node) ==
    /\ node.tag = "definition"
    /\ node.text \notin {Absent, PyNone}
    /\ Contains(Last(Words(node.text)), ".")
    /\ \E i \in 1..Len(PathSegments(node.text)) : StartsWith(PathSegments(node.text)[i], "_")

\* C20: the visit of a definition whose qualified path has a private
\* segment, in any position including the first, discards the function:
\* the Member is absent and _process_grandchild returns None.
C20_PrivateSegmentDiscarded ==
    PrivatePathDefinition(ggchild) =>
        /\ gg.memberIsNone
        /\ pc = "returned"
        /\ result.kind = "None"

\* The tags that go before the description of a class method and of an
\* instance method.
ClassmethodTag == "_@classmethod_: "

MemberfunctionTag == "_::memberfunction_: "

\* The description carries the tag the flags of the function ask for.
TaggedByFlags(desc, is_classmethod, is_member) ==
    /\ is_classmethod => StartsWith(desc, ClassmethodTag)
    /\ (is_member /\ ~is_classmethod) => StartsWith(desc, MemberfunctionTag)
    /\ (~is_classmethod /\ ~is_member) =>
           ~StartsWith(desc, ClassmethodTag) /\ ~StartsWith(desc, MemberfunctionTag)

\* C21: in every Member that is returned with a documentation summary, the
\* description starts with the classmethod tag when the classmethod flag is
\* set, with the memberfunction tag when the instance-method flag is set,
\* and with neither when no flag is set, whatever the order in which the
\* param and detaileddescription sub-nodes were visited.
C21_DescriptionPrefix ==
    (pc = "returned" /\ result.kind = "member" /\ DictHas(result.params, "description"))
        => TaggedByFlags(DictGet(result.params, "description"), gg.is_classmethod, gg.is_member)

\* The function node has a receiver among its param sub-nodes.
HasReceiver(nodes) ==
    \E i \in 1..Len(nodes) : nodes[i].tag = "param" /\ nodes[i].name \in {"self", "cls"}

\* The Child has been constructed as far as its casa_mode.
Constructed == pc \in {"section", "done"}

\* casa_mode is true exactly when the parent's was, or the description of
\* the element is classified casa.
CasaModeFromParentOrOwn ==
    child.casa_mode <=>
        \/ parent.exists /\ parent.casa_mode
        \/ /\ element.tag = "detaileddescription"
           /\ element.text # Absent
           /\ identify_format(element.text) = "casa"

\* The Member of the function node just walked has the receiver exactly
\* when the Child is not in CASA mode.
ReceiverFollowsChild ==
    (visited > 0 /\ result.kind = "member" /\ HasReceiver(section[visited]))
        => (DictHas(result.params, "self") <=> ~child.casa_mode)

\* C22: a Child's casa_mode is true exactly when its parent's was true at
\* construction or its own detaileddescription is classified casa, no step
\* resets it to false, and every walk of a function node by that Child
\* leaves the receiver out exactly when that Child's casa_mode is true.
C22_CasaModePropagation ==
    /\ [](Constructed => (CasaModeFromParentOrOwn /\ ReceiverFollowsChild))
    /\ [][child.casa_mode => child'.casa_mode]_vars

\* A Child in CASA mode by its parent has walked a method and left its
\* receiver out.
C22_Witness ==
    /\ Constructed
    /\ parent.exists /\ parent.casa_mode /\ child.casa_mode
    /\ visited > 0 /\ result.kind = "member" /\ HasReceiver(section[visited])
    /\ ~DictHas(result.params, "self")

\* A Child in CASA mode by its own description.
C22_WitnessOwn ==
    /\ Constructed
    /\ ~parent.exists /\ child.casa_mode
    /\ ddO.made /\ ddO.obj.format = "casa"

\* The category of a Member, "" when it has none.
CategoryOf(params) == IF DictHas(params, "category") THEN DictGet(params, "category") ELSE ""

\* The Member has the category and the path field of the language, and not
\* the path field of the other language.
TaggedFor(params, category, field, other) ==
    /\ CategoryOf(params) = category
    /\ DictHas(params, field)
    /\ ~DictHas(params, other)

\* C23: every Member returned for a function node carries exactly one of
\* the two categories, chosen by the language handed in: C gives DynlibApp
\* with a libpath field and no dropclass field, PYTHON gives PythonApp with
\* a dropclass field and no libpath field.
C23_LanguageTag ==
    (pc = "returned" /\ result.kind = "member" /\ gchild.isFunction) =>
        /\ CategoryOf(result.params) \in {"DynlibApp", "PythonApp"}
        /\ language = "C" => TaggedFor(result.params, "DynlibApp", "libpath", "dropclass")
        /\ language = "PYTHON" => TaggedFor(result.params, "PythonApp", "dropclass", "libpath")

\* The type field of the record the param sub-node just visited has left.
EmittedType == Field(DictGet(gg.params, ggchild.name), 2)

\* The param sub-node just visited has a type element and was recorded.
TypedParamVisited ==
    /\ ggchild.tag = "param"
    /\ ggchild.type # Absent
    /\ gg.raised = ""
    /\ DictHas(gg.params, ggchild.name)

\* C24: a param whose type element holds a reference to a named type R is
\* recorded with the type Object.R, and one whose type element holds a
\* plain token T that is no canonical tag is recorded with the type Object.T.
C24_NamedTypeReference ==
    TypedParamVisited =>
        IF ggchild.ref # Absent THEN EmittedType = "Object." \o ggchild.ref
        ELSE (ggchild.type # PyNone /\ ggchild.type \notin VALUE_TYPES_values)
                 => EmittedType = "Object." \o ggchild.type

\* The place of the first line with the marker, 0 when there is none.
FirstLineWith(lines, marker) ==
    FirstOrZero({i \in 1..Len(lines) : Contains(lines[i], marker)})

\* The places of the lines between the parameter banner and the example
\* banner, or the end of the text when there is no example banner.
CasaRegion(lines) ==
    {i \in 1..Len(lines) :
        /\ FirstLineWith(lines, "- parameter") # 0
        /\ i > FirstLineWith(lines, "- parameter")
        /\ FirstLineWith(lines, "- example") # 0 => i < FirstLineWith(lines, "- example")}

\* The line is a non-indented "name description" line, and no banner.
StartsParameter(line) == TopLevel(line) /\ Contains(Strip(line), " ") /\ ~IsBanner(line)

\* The places of the indented lines that continue the parameter at place i:
\* those after it in the region with no parameter line in between.
Continuations(lines, i) ==
    {j \in CasaRegion(lines) :
        /\ j > i
        /\ Len(Strip(lines[j])) > 0
        /\ \A m \in (i + 1)..j : ~TopLevel(lines[m])}

RECURSIVE JoinLinesAt(_, _)
\* The stripped lines at the given places, in order, each after a blank.
JoinLinesAt(lines, places) ==
    IF places = {} THEN ""
    ELSE " " \o Strip(lines[SetMin(places)]) \o JoinLinesAt(lines, places \ {SetMin(places)})

\* The description of the parameter at place i with its continuation lines.
CasaDescription(lines, i) ==
    Strip(Split1(Strip(lines[i]), " ")[2]) \o JoinLinesAt(lines, Continuations(lines, i))

\* The parameter line at place i is the last one of its name.
LastOfName(lines, i) ==
    \A j \in CasaRegion(lines) :
        (j > i /\ StartsParameter(lines[j]))
            => Split1(Strip(lines[j]), " ")[1] # Split1(Strip(lines[i]), " ")[1]

\* C25: for a text classified casa, every non-indented "name description"
\* line between the parameter banner and the example banner (or the end of
\* the text) has an entry in the parameters of the DetailedDescription, and
\* the entry is its description followed by its indented continuation lines
\* up to the last line of the region, joined by single blanks.
C25_CasaExtraction ==
    (ddO.made /\ ddO.obj.raised = "" /\ ddO.obj.format = "casa") =>
        \A i \in CasaRegion(Split(doc.description, "\n")) :
            (StartsParameter(Split(doc.description, "\n")[i])
                 /\ LastOfName(Split(doc.description, "\n"), i))
                => /\ DictHas(ddO.obj.params, Split1(Strip(Split(doc.description, "\n")[i]), " ")[1])
                   /\ DictGet(ddO.obj.params, Split1(Strip(Split(doc.description, "\n")[i]), " ")[1])
                          = CasaDescription(Split(doc.description, "\n"), i)

\* The text matches the pattern of no dialect.
MatchesNoDialect(text) ==
    \A k \in 1..Len(KNOWN_FORMATS) : ~FormatMatches(KNOWN_FORMATS[k], StrippedText(text))

\* C26: for a text that matches no dialect pattern the constructor of
\* DetailedDescription does not raise, the parameters are empty and
\* main_descr is the text that was handed in, unchanged.
C26_UnknownDialect ==
    (ddO.made /\ MatchesNoDialect(doc.description)) =>
        /\ ddO.obj.raised = ""
        /\ ddO.obj.params = <<>>
        /\ ddO.obj.main_descr = doc.description

\* The grandchildren of a section that are function memberdefs and are not
\* filtered out, in document order.
KeptFunctions(sec) ==
    SelectSeq(sec, LAMBDA g : g.isFunction /\ Standalone(g.nodes).kind = "member")

\* C27: when Child.__init__ has walked a function section, members holds
\* one entry for each function memberdef that was not filtered out, in
\* document order, and none for any other grandchild: no Member is dropped
\* for being equal to the member dictionary of the Child, and no Member is
\* empty.
C27_OneMemberPerFunction ==
    pc = "done" =>
        /\ Len(members) = Len(KeptFunctions(section))
        /\ \A k \in 1..Len(members) : Len(members[k]) # 0
        /\ \A k \in 1..Len(members) :
               k <= Len(KeptFunctions(section)) =>
                   FuncNameOf(members[k]) = FuncNameOf(Standalone(KeptFunctions(section)[k].nodes).params)

\* The value is the record of a signature parameter.
IsParamRecord(v) == Field(v, 3) = "ApplicationArgument"

\* The names whose entry is the record of a signature parameter.
DeclaredParams(params) == {name \in DictKeys(params) : IsParamRecord(DictGet(params, name))}

\* The param sub-node is recorded under its own name: it is no receiver.
OwnEntry(node) == node.tag = "param" /\ node.name \notin {Absent, PyNone, "self", "cls"}

\* C28: during the walk of a function node every signature parameter gets
\* an entry with its record when its param sub-node is visited, and no
\* later sub-node takes the entry away: a parameter named text or
\* description keeps its record when the argsstring or the
\* detaileddescription is visited.
C28_ParametersKeepEntries ==
    [][(pc = "loop" /\ pc' = "loop") =>
           /\ OwnEntry(ggchild') => ggchild'.name \in DeclaredParams(gg'.params)
           /\ DeclaredParams(gg.params) \subseteq DeclaredParams(gg'.params)]_vars

\* The default is one populateFields takes over as the value of the field:
\* a string, a list or a tuple.
TakenOver(default) == default.kind \in {"str", "list", "tuple"}

\* The value of the field made for the i-th parameter.
FieldValue(i) == DictGet(fields, parameters[i].name).value

\* C29: value and defaultValue of each field depend only on the default of
\* its own parameter: two parameters with the same default get the same
\* value, and a parameter with no default, or with a default that is
\* neither a string nor a list or tuple, never gets the default of a
\* parameter processed before it in the same call.
C29_OwnDefaultOnly ==
    \A i \in 1..Len(fields) :
        /\ DictGet(fields, parameters[i].name).defaultValue = FieldValue(i)
        /\ \A j \in 1..(i - 1) :
               /\ parameters[j].default = parameters[i].default => FieldValue(j) = FieldValue(i)
               /\ (~TakenOver(parameters[i].default) /\ parameters[j].default # Empty
                       /\ parameters[j].default # parameters[i].default)
                      => FieldValue(i) # parameters[j].default

====
